---- MODULE Spec2Model ----
(***************************************************************************)
(* Risk-gated order engine of CryptoFuturesTrader (src/coinex_trader.py).  *)
(*                                                                         *)
(* Time is counted in whole minutes; a calendar day is DayLen minutes      *)
(* long, so datetime.date() is Day(t).  Money is counted in whole USD.     *)
(* Python's None is NoTime for a timestamp and NoArg for an omitted        *)
(* argument.  Every action is one whole command of the engine, executed    *)
(* without interleaving; Tick lets the wall clock advance between          *)
(* commands.                                                               *)
(***************************************************************************)
EXTENDS Integers, Sequences, FiniteSets

VARIABLES
    now,                 \* wall clock, datetime.now()
    max_trades_per_day,  \* RiskLimits
    cooldown_minutes,
    max_daily_loss,
    max_position_size,
    daily_trade_count,   \* DailyState
    daily_pnl,
    last_trade_time,
    trades_history,
    pending_monitors,    \* MonitorTargets, in dict insertion order
    saved,               \* contents of the state file at config_path
    next_order,          \* gateway: id the next accepted order receives
    gateway_calls,       \* gateway calls made by the command just executed
    result,              \* the command just executed: its name, its main
                         \* argument (amount or order id) and what it returned
    monitoring_active,   \* the monitor's run flag
    monitor_threads,     \* every thread start_monitoring created, by its
                         \* position in _monitor_positions; monitor_thread
                         \* is the last one
    joining,             \* stop_monitoring is waiting in join()
    positions,           \* what fetch_positions returned to the cycle
    tickers,             \* what fetch_ticker answered in that cycle
    close_attempts,      \* close_position calls of the latest monitor cycle
    workers              \* threads that record a fill concurrently

vars == <<now, max_trades_per_day, cooldown_minutes, max_daily_loss,
          max_position_size, daily_trade_count, daily_pnl, last_trade_time,
          trades_history, pending_monitors, saved, next_order, gateway_calls,
          result, monitoring_active, monitor_threads, joining, positions,
          tickers, close_attempts, workers>>

limits == <<max_trades_per_day, cooldown_minutes, max_daily_loss,
            max_position_size>>

monitor == <<monitoring_active, monitor_threads, joining, positions,
             tickers, close_attempts>>

----------------------------------------------------------------------------
(* Bounds of the model *)

MaxTime == 3        \* the clock stops after this many minutes
DayLen == 2         \* minutes per calendar day
MaxOrders == 2      \* orders the gateway accepts in one run
MaxPnl == 2         \* |daily_pnl| stays within this amount
MaxCount == 2       \* daily_trade_count is not pushed beyond this value
MaxPositions == 1   \* open positions the gateway reports in one cycle
MaxThreads == 2     \* monitor threads kept in the model at one time
MaxWorkers == 3     \* commands in flight at the same time
MaxOpen == 2        \* positions fetch_positions returns to close_position
MaxBook == 2        \* positions of the book reported in one monitor cycle

(* Program constants: defaults set by the constructor *)

DefaultMaxTrades == 25
DefaultCooldown == 1
DefaultMaxDailyLoss == 20
DefaultMaxPositionSize == 5

NoTime == -1        \* None as a timestamp
NoArg == -1         \* None as an omitted numeric argument
NoOrder == 0        \* None as an order id
NoPrice == -1       \* fetch_ticker raised, or the ticker's last is None
NoLast == -3        \* the ticker has no "last" entry
NotFetched == -2    \* fetch_ticker was not called

HardStopLoss == -5  \* unrealized PnL at which the monitor closes a position

(* Inputs the commands are called with *)

InputSymbols == {"BTC/USDT", "XYZ/USDT"}
Markets == {"BTCUSDT", "ETHUSDT"}       \* exchange.markets
Amounts == {1, 2}
Prices == {NoArg, 1}                    \* NoArg: market order
StopLossArgs == {NoArg, 1}
TakeProfitArgs == {NoArg}
Sides == {"buy"}
PnlAmounts == {-1, 1}
MaxTradesArgs == {NoArg, -2, 1}           \* any int the caller passes
CooldownArgs == {NoArg, 2}
MaxDailyLossArgs == {NoArg, 1, 2}
MaxPositionSizeArgs == {NoArg, 0, 1}
Statuses == {"pending", "filled", "canceled"}
OrderResponses == {"open", "closed", "filled", "canceled", "cancelled", "error"}

GatewayOutcomes == {"ok", "ticker_error", "order_error"}

(* What the gateway reports to the monitor *)

PositionSymbols == {"BTCUSDT", "ETHUSDT"}
PositionSides == {"long", "short"}
PositionPnls == {-6, -5, -4}
TickerPrices == {95, 100, 105}
TargetPrices == {NoArg, 100}            \* stop_loss / take_profit of a target

Positions == [symbol : PositionSymbols, side : PositionSides,
              unrealizedPnl : PositionPnls]

RECURSIVE ListsUpTo(_, _)
ListsUpTo(S, n) ==
    IF n = 0 THEN {<<>>}
    ELSE LET shorter == ListsUpTo(S, n - 1)
         IN  shorter \cup {Append(l, x) : l \in shorter, x \in S}

PositionLists == ListsUpTo(Positions, MaxPositions)

\* a book of long positions, each one at or above the hard-stop threshold
BookPositions == [symbol : PositionSymbols, side : {"long"},
                  unrealizedPnl : {-6, -4}]

\* the exchange reports one position for a symbol
BookLists == {l \in ListsUpTo(BookPositions, MaxBook) :
                \A j, k \in DOMAIN l : l[j].symbol = l[k].symbol => j = k}

(* What the gateway reports to close_position *)

CloseSymbols == {"BTCUSDT", "BTC", "XRPUSDT"}   \* the symbol argument
ProperSubstrings == {<<"BTC", "BTCUSDT">>}
Contracts == {0, 2}
CloseOrderTypes == {"market", "limit"}
LimitPrices == {NoArg, 100}
FetchOutcomes == {"ok", "fetch_error"}
CloseOutcomes == {"ok", "order_error"}

\* every BTCUSDT position, open or flat, and one open ETHUSDT position
RawPositions ==
    {p \in [symbol : PositionSymbols, side : PositionSides,
            contracts : Contracts] :
       p.symbol = "ETHUSDT" => (p.side = "long" /\ p.contracts > 0)}

RawPositionLists == ListsUpTo(RawPositions, MaxOpen)

OrderIds == 1..MaxOrders

----------------------------------------------------------------------------
(* Helpers *)

Day(t) == t \div DayLen

NoResult == [op |-> "none", arg |-> 0, ok |-> FALSE, reason |-> ""]

NoFile == [exists |-> FALSE, date |-> 0, daily_trade_count |-> 0,
           daily_pnl |-> 0, last_trade_time |-> NoTime,
           trades_history |-> <<>>]

GwCall(fn, id) == [fn |-> fn, order_id |-> id]

\* _save_state: the whole DailyState, stamped with the current date
save_state(cnt, pnl, ltt, hist) ==
    [exists |-> TRUE, date |-> Day(now), daily_trade_count |-> cnt,
     daily_pnl |-> pnl, last_trade_time |-> ltt, trades_history |-> hist]

\* format_symbol_for_exchange for exchange_id = "coinex": strip the "/"
format_symbol_for_exchange(symbol) ==
    CASE symbol = "BTC/USDT" -> "BTCUSDT"
      [] symbol = "XYZ/USDT" -> "XYZUSDT"
      [] OTHER -> symbol

----------------------------------------------------------------------------
(* can_trade *)

\* the day-rollover test of can_trade
new_day(ltt, t) == ltt # NoTime /\ Day(ltt) < Day(t)

\* DailyState as can_trade leaves it
gate_count(cnt, ltt, t) == IF new_day(ltt, t) THEN 0 ELSE cnt
gate_pnl(pnl, ltt, t) == IF new_day(ltt, t) THEN 0 ELSE pnl
gate_history(hist, ltt, t) == IF new_day(ltt, t) THEN <<>> ELSE hist

\* can_trade with the trade-count check off by one
can_trade_count_off_by_one(cnt, pnl, ltt, t) ==
    IF cnt > max_trades_per_day THEN "max_trades"
    ELSE IF ltt # NoTime /\ t < ltt + cooldown_minutes THEN "cooldown"
    ELSE IF pnl <= -max_daily_loss THEN "daily_loss"
    ELSE "allowed"

\* can_trade with a cooldown window that ends one minute early
can_trade_short_cooldown(cnt, pnl, ltt, t) ==
    IF cnt >= max_trades_per_day THEN "max_trades"
    ELSE IF ltt # NoTime /\ t + 1 < ltt + cooldown_minutes THEN "cooldown"
    ELSE IF pnl <= -max_daily_loss THEN "daily_loss"
    ELSE "allowed"

\* can_trade that still allows trading at exactly -max_daily_loss
can_trade_loss_strict(cnt, pnl, ltt, t) ==
    IF cnt >= max_trades_per_day THEN "max_trades"
    ELSE IF ltt # NoTime /\ t < ltt + cooldown_minutes THEN "cooldown"
    ELSE IF pnl < -max_daily_loss THEN "daily_loss"
    ELSE "allowed"

\* can_trade that tests the cooldown before the trade count
can_trade_cooldown_first(cnt, pnl, ltt, t) ==
    IF ltt # NoTime /\ t < ltt + cooldown_minutes THEN "cooldown"
    ELSE IF cnt >= max_trades_per_day THEN "max_trades"
    ELSE IF pnl <= -max_daily_loss THEN "daily_loss"
    ELSE "allowed"

\* the three checks of can_trade, on the state after the rollover test
can_trade(cnt, pnl, ltt, t) ==
    IF cnt >= max_trades_per_day THEN "max_trades"
    ELSE IF ltt # NoTime /\ t < ltt + cooldown_minutes THEN "cooldown"
    ELSE IF pnl <= -max_daily_loss THEN "daily_loss"
    ELSE "allowed"

GateReason ==
    can_trade(gate_count(daily_trade_count, last_trade_time, now),
              gate_pnl(daily_pnl, last_trade_time, now),
              last_trade_time, now)

CanTrade ==
    /\ daily_trade_count' = gate_count(daily_trade_count, last_trade_time, now)
    /\ daily_pnl' = gate_pnl(daily_pnl, last_trade_time, now)
    /\ trades_history' = gate_history(trades_history, last_trade_time, now)
    /\ result' = [op |-> "can_trade", arg |-> 0,
                  ok |-> GateReason = "allowed", reason |-> GateReason]
    /\ gateway_calls' = <<>>
    /\ UNCHANGED <<monitor, workers>>
    /\ UNCHANGED <<now, limits, last_trade_time, pending_monitors, saved,
                   next_order>>

----------------------------------------------------------------------------
(* place_trade *)

\* pending_monitors[key] = target: overwrite in place or append
SetMonitor(mons, target) ==
    IF \E i \in DOMAIN mons : mons[i].key = target.key
    THEN [i \in DOMAIN mons |->
            IF mons[i].key = target.key THEN target ELSE mons[i]]
    ELSE Append(mons, target)

\* a rejection that has already stamped last_trade_time
PlaceTradeReject_stamps_time(amount, reason, calls) ==
    /\ daily_trade_count' = gate_count(daily_trade_count, last_trade_time, now)
    /\ daily_pnl' = gate_pnl(daily_pnl, last_trade_time, now)
    /\ trades_history' = gate_history(trades_history, last_trade_time, now)
    /\ result' = [op |-> "place_trade", arg |-> amount, ok |-> FALSE,
                  reason |-> reason]
    /\ gateway_calls' = calls
    /\ last_trade_time' = now
    /\ UNCHANGED <<monitor, workers>>
    /\ UNCHANGED <<now, limits, pending_monitors, saved, next_order>>

PlaceTradeReject(amount, reason, calls) ==
    /\ daily_trade_count' = gate_count(daily_trade_count, last_trade_time, now)
    /\ daily_pnl' = gate_pnl(daily_pnl, last_trade_time, now)
    /\ trades_history' = gate_history(trades_history, last_trade_time, now)
    /\ result' = [op |-> "place_trade", arg |-> amount, ok |-> FALSE,
                  reason |-> reason]
    /\ gateway_calls' = calls
    /\ UNCHANGED <<monitor, workers>>
    /\ UNCHANGED <<now, limits, last_trade_time, pending_monitors, saved,
                   next_order>>

\* the order is accepted by the gateway; file_ok tells whether _save_state
\* could open the state file (when it cannot, the exception lands in the
\* handler of place_trade after all the bookkeeping is done)
PlaceTradeAccept(fsym, side, amount, price, stop_loss, take_profit, calls, file_ok) ==
    LET cnt0 == gate_count(daily_trade_count, last_trade_time, now)
        pnl0 == gate_pnl(daily_pnl, last_trade_time, now)
        hist0 == gate_history(trades_history, last_trade_time, now)
        is_market_order == price = NoArg
        trade_record == [time |-> now, symbol |-> fsym,
                         order_id |-> next_order,
                         order_type |-> IF is_market_order THEN "market"
                                        ELSE "limit",
                         status |-> IF is_market_order THEN "filled"
                                    ELSE "pending"]
        cnt1 == IF is_market_order THEN cnt0 + 1 ELSE cnt0
        ltt1 == IF is_market_order THEN now ELSE last_trade_time
        hist1 == Append(hist0, trade_record)
    IN  /\ cnt1 <= MaxCount
        /\ daily_trade_count' = cnt1
        /\ last_trade_time' = ltt1
        /\ daily_pnl' = pnl0
        /\ trades_history' = hist1
        /\ pending_monitors' =
              IF stop_loss # NoArg \/ take_profit # NoArg
              THEN SetMonitor(pending_monitors,
                              [key |-> fsym, side |-> side,
                               stop_loss |-> stop_loss,
                               take_profit |-> take_profit])
              ELSE pending_monitors
        /\ saved' = IF file_ok THEN save_state(cnt1, pnl0, ltt1, hist1)
                    ELSE saved
        /\ next_order' = next_order + 1
        /\ result' = [op |-> "place_trade", arg |-> amount, ok |-> file_ok,
                      reason |-> IF file_ok THEN "placed" ELSE "save"]
        /\ gateway_calls' = calls
        /\ UNCHANGED <<monitor, workers>>
        /\ UNCHANGED <<now, limits>>

PlaceTrade(symbol, side, amount, price, stop_loss, take_profit, gateway) ==
    LET fsym == format_symbol_for_exchange(symbol)
        setup == <<GwCall("market", NoOrder), GwCall("set_leverage", NoOrder),
                   GwCall("set_margin_mode", NoOrder)>>
        priced == IF price = NoArg
                  THEN Append(setup, GwCall("fetch_ticker", NoOrder))
                  ELSE setup
        ordered == Append(priced, GwCall("create_order", NoOrder))
    IN  IF GateReason # "allowed"
        THEN PlaceTradeReject(amount, GateReason, <<>>)
        ELSE IF amount > max_position_size
        THEN PlaceTradeReject(amount, "size", <<>>)
        ELSE IF fsym \notin Markets
        THEN PlaceTradeReject(amount, "symbol", <<GwCall("market", NoOrder)>>)
        ELSE IF price = NoArg /\ gateway = "ticker_error"
        THEN PlaceTradeReject(amount, "price", priced)
        ELSE IF gateway = "order_error" \/ next_order > MaxOrders
        THEN PlaceTradeReject(amount, "order", ordered)
        ELSE PlaceTradeAccept(fsym, side, amount, price, stop_loss,
                              take_profit, ordered, gateway # "save_error")

----------------------------------------------------------------------------
(* check_limit_order_status *)

\* is_pending_order that selects a named order whatever its status
is_pending_order_any_status(trade, order_id) ==
    IF order_id # NoOrder
    THEN trade.order_id = order_id
    ELSE trade.status = "pending" /\ trade.order_type = "limit"

\* the records check_limit_order_status collects in pending_orders
is_pending_order(trade, order_id) ==
    IF order_id # NoOrder
    THEN trade.order_id = order_id /\ trade.status = "pending"
    ELSE trade.status = "pending" /\ trade.order_type = "limit"

\* checked_trade that marks a canceled order as filled
checked_trade_cancel_as_fill(trade, resp) ==
    IF resp \in {"closed", "filled", "canceled", "cancelled"}
    THEN [trade EXCEPT !.status = "filled"]
    ELSE trade

\* the record after the gateway answered resp for its order
checked_trade(trade, resp) ==
    IF resp \in {"closed", "filled"} THEN [trade EXCEPT !.status = "filled"]
    ELSE IF resp \in {"canceled", "cancelled"}
    THEN [trade EXCEPT !.status = "canceled"]
    ELSE trade

CheckLimitOrderStatus(order_id) ==
    LET pending == {i \in DOMAIN trades_history :
                      is_pending_order(trades_history[i], order_id)}
        pending_orders == SelectSeq(trades_history,
                            LAMBDA trade : is_pending_order(trade, order_id))
    IN  IF pending = {}
        THEN /\ result' = [op |-> "check_limit_order_status",
                           arg |-> order_id, ok |-> TRUE,
                           reason |-> "no_pending"]
             /\ gateway_calls' = <<>>
             /\ UNCHANGED <<monitor, workers>>
             /\ UNCHANGED <<now, limits, daily_trade_count, daily_pnl,
                            last_trade_time, trades_history, pending_monitors,
                            saved, next_order>>
        ELSE \E resp \in [pending -> OrderResponses] :
             LET hist1 == [i \in DOMAIN trades_history |->
                             IF i \in pending
                             THEN checked_trade(trades_history[i], resp[i])
                             ELSE trades_history[i]]
                 fills == Cardinality({i \in pending :
                                         resp[i] \in {"closed", "filled"}})
                 cancels == Cardinality({i \in pending :
                                         resp[i] \in {"canceled", "cancelled"}})
                 cnt1 == daily_trade_count + fills
                 ltt1 == IF fills > 0 THEN now ELSE last_trade_time
                 updated == fills + cancels > 0
             IN  /\ cnt1 <= MaxCount
                 /\ trades_history' = hist1
                 /\ daily_trade_count' = cnt1
                 /\ last_trade_time' = ltt1
                 /\ saved' = IF updated
                             THEN save_state(cnt1, daily_pnl, ltt1, hist1)
                             ELSE saved
                 /\ result' = [op |-> "check_limit_order_status",
                               arg |-> order_id, ok |-> TRUE,
                               reason |-> IF updated THEN "updated"
                                          ELSE "no_update"]
                 /\ gateway_calls' =
                      [k \in DOMAIN pending_orders |->
                         GwCall("fetch_order", pending_orders[k].order_id)]
                 /\ UNCHANGED <<monitor, workers>>
                 /\ UNCHANGED <<now, limits, daily_pnl, pending_monitors,
                                next_order>>

----------------------------------------------------------------------------
(* update_order_status *)

UpdateOrderStatus(order_id, new_status) ==
    LET matches == {i \in DOMAIN trades_history :
                      trades_history[i].order_id = order_id}
    IN  IF matches = {}
        THEN /\ result' = [op |-> "update_order_status", arg |-> order_id,
                           ok |-> FALSE, reason |-> "not_found"]
             /\ gateway_calls' = <<>>
             /\ UNCHANGED <<monitor, workers>>
             /\ UNCHANGED <<now, limits, daily_trade_count, daily_pnl,
                            last_trade_time, trades_history, pending_monitors,
                            saved, next_order>>
        ELSE LET first == CHOOSE i \in matches : \A j \in matches : i <= j
                 old_status == trades_history[first].status
                 counted == old_status = "pending" /\ new_status = "filled"
                 hist1 == [trades_history EXCEPT ![first].status = new_status]
                 cnt1 == IF counted THEN daily_trade_count + 1
                         ELSE daily_trade_count
                 ltt1 == IF counted THEN now ELSE last_trade_time
             IN  /\ cnt1 <= MaxCount
                 /\ trades_history' = hist1
                 /\ daily_trade_count' = cnt1
                 /\ last_trade_time' = ltt1
                 /\ saved' = save_state(cnt1, daily_pnl, ltt1, hist1)
                 /\ result' = [op |-> "update_order_status",
                               arg |-> order_id, ok |-> TRUE,
                               reason |-> "updated"]
                 /\ gateway_calls' = <<>>
                 /\ UNCHANGED <<monitor, workers>>
                 /\ UNCHANGED <<now, limits, daily_pnl, pending_monitors,
                                next_order>>

----------------------------------------------------------------------------
(* update_pnl *)

\* an update_pnl that clears the history once the loss limit is reached
UpdatePnl_stops_trading(trade_pnl) ==
    LET pnl1 == daily_pnl + trade_pnl
        hist1 == IF pnl1 <= -max_daily_loss THEN <<>> ELSE trades_history
    IN  /\ pnl1 <= MaxPnl
        /\ pnl1 >= -MaxPnl
        /\ daily_pnl' = pnl1
        /\ trades_history' = hist1
        /\ saved' = save_state(daily_trade_count, pnl1, last_trade_time,
                               hist1)
        /\ result' = [op |-> "update_pnl", arg |-> trade_pnl, ok |-> TRUE,
                      reason |-> ""]
        /\ gateway_calls' = <<>>
        /\ UNCHANGED <<monitor, workers>>
        /\ UNCHANGED <<now, limits, daily_trade_count, last_trade_time,
                       pending_monitors, next_order>>

UpdatePnl(trade_pnl) ==
    /\ daily_pnl + trade_pnl <= MaxPnl
    /\ daily_pnl + trade_pnl >= -MaxPnl
    /\ daily_pnl' = daily_pnl + trade_pnl
    /\ saved' = save_state(daily_trade_count, daily_pnl + trade_pnl,
                           last_trade_time, trades_history)
    /\ result' = [op |-> "update_pnl", arg |-> trade_pnl, ok |-> TRUE,
                  reason |-> ""]
    /\ gateway_calls' = <<>>
    /\ UNCHANGED <<monitor, workers>>
    /\ UNCHANGED <<now, limits, daily_trade_count, last_trade_time,
                   trades_history, pending_monitors, next_order>>

----------------------------------------------------------------------------
(* get_trading_status *)

\* filled_trades_today without the date test
filled_trades_any_day(hist, t) ==
    {i \in DOMAIN hist : hist[i].status = "filled"}

\* filled_trades_today of get_trading_status
filled_trades_today(hist, t) ==
    {i \in DOMAIN hist :
       hist[i].status = "filled" /\ Day(hist[i].time) = Day(t)}

GetTradingStatus ==
    LET cnt0 == gate_count(daily_trade_count, last_trade_time, now)
        pnl0 == gate_pnl(daily_pnl, last_trade_time, now)
        hist0 == gate_history(trades_history, last_trade_time, now)
        n == Cardinality(filled_trades_today(hist0, now))
    IN  /\ daily_trade_count' = n
        /\ daily_pnl' = pnl0
        /\ trades_history' = hist0
        /\ saved' = IF n # cnt0
                    THEN save_state(n, pnl0, last_trade_time, hist0)
                    ELSE saved
        /\ result' = [op |-> "get_trading_status", arg |-> 0,
                      ok |-> GateReason = "allowed", reason |-> GateReason]
        /\ gateway_calls' = <<>>
        /\ UNCHANGED <<monitor, workers>>
        /\ UNCHANGED <<now, limits, last_trade_time, pending_monitors,
                       next_order>>

----------------------------------------------------------------------------
(* update_risk_parameters *)

UpdateRiskParameters(max_trades, cooldown_mins, max_loss, max_size) ==
    /\ max_trades_per_day' = IF max_trades # NoArg THEN max_trades
                             ELSE max_trades_per_day
    /\ cooldown_minutes' = IF cooldown_mins # NoArg THEN cooldown_mins
                           ELSE cooldown_minutes
    /\ max_daily_loss' = IF max_loss # NoArg THEN max_loss
                         ELSE max_daily_loss
    /\ max_position_size' = IF max_size # NoArg THEN max_size
                            ELSE max_position_size
    /\ saved' = save_state(daily_trade_count, daily_pnl, last_trade_time,
                           trades_history)
    /\ result' = [op |-> "update_risk_parameters", arg |-> 0, ok |-> TRUE,
                  reason |-> ""]
    /\ gateway_calls' = <<>>
    /\ UNCHANGED <<monitor, workers>>
    /\ UNCHANGED <<now, daily_trade_count, daily_pnl, last_trade_time,
                   trades_history, pending_monitors, next_order>>

----------------------------------------------------------------------------
(* close_position and get_open_positions *)

\* a in b for the symbols of the model (Python's substring test on str)
is_substring(a, b) == a = b \/ <<a, b>> \in ProperSubstrings

\* get_open_positions: the positions with contracts > 0, [] when
\* fetch_positions raised
get_open_positions(raw, fetch) ==
    IF fetch = "fetch_error" THEN <<>>
    ELSE SelectSeq(raw, LAMBDA p : p.contracts > 0)

\* pos_symbol == symbol or symbol in pos_symbol or pos_symbol in symbol
position_matches(pos_symbol, symbol) ==
    \/ pos_symbol = symbol
    \/ is_substring(symbol, pos_symbol)
    \/ is_substring(pos_symbol, symbol)

\* the first open position that matches the symbol, 0 for none
find_position(open, symbol) ==
    IF \E i \in DOMAIN open : position_matches(open[i].symbol, symbol)
    THEN CHOOSE i \in DOMAIN open :
            /\ position_matches(open[i].symbol, symbol)
            /\ \A j \in DOMAIN open :
                  position_matches(open[j].symbol, symbol) => i <= j
    ELSE 0

\* close_side that repeats the side of the position
close_side_same(position_side) ==
    IF position_side = "long" THEN "buy" ELSE "sell"

\* side = "sell" if position["side"] == "long" else "buy"
close_side(position_side) ==
    IF position_side = "long" THEN "sell" ELSE "buy"

FetchPositionsCall(raw, fetch) ==
    [fn |-> "fetch_positions", order_id |-> NoOrder,
     ok |-> fetch # "fetch_error",
     answer |-> IF fetch = "fetch_error" THEN <<>> ELSE raw]

\* exchange.create_order(actual_symbol, type, side, amount, price,
\*                       {"reduceOnly": True})
CloseOrderCall(position, order_type, limit_price) ==
    LET limit == order_type = "limit" /\ limit_price # NoArg
    IN  [fn |-> "create_order", order_id |-> NoOrder,
         symbol |-> position.symbol,
         type |-> IF limit THEN "limit" ELSE "market",
         side |-> close_side(position.side),
         amount |-> position.contracts,
         price |-> IF limit THEN limit_price ELSE NoArg,
         reduceOnly |-> TRUE]

\* what close_position returns and the gateway calls it makes; raw and
\* fetch are the answer of fetch_positions, order that of create_order
close_position(symbol, raw, fetch, order_type, limit_price, order) ==
    LET open == get_open_positions(raw, fetch)
        i == find_position(open, symbol)
        fetched == <<FetchPositionsCall(raw, fetch)>>
        ordered == Append(fetched,
                          CloseOrderCall(open[i], order_type, limit_price))
    IN  IF i = 0
        THEN [success |-> FALSE, reason |-> "no_position", calls |-> fetched]
        ELSE IF order = "order_error"
        THEN [success |-> FALSE, reason |-> "order_error", calls |-> ordered]
        ELSE [success |-> TRUE, reason |-> "closed", calls |-> ordered]

\* a close_position that books the close as a trade
ClosePosition_counts_trade(symbol, raw, fetch, order_type, limit_price, order) ==
    LET r == close_position(symbol, raw, fetch, order_type, limit_price, order)
    IN  /\ result' = [op |-> "close_position", arg |-> symbol,
                      ok |-> r.success, reason |-> r.reason]
        /\ gateway_calls' = r.calls
        /\ daily_trade_count' = IF r.success THEN daily_trade_count + 1
                                ELSE daily_trade_count
        /\ last_trade_time' = IF r.success THEN now ELSE last_trade_time
        /\ UNCHANGED <<now, limits, daily_pnl, trades_history,
                       pending_monitors, saved, next_order, monitor, workers>>

\* close_position called as a command
ClosePosition(symbol, raw, fetch, order_type, limit_price, order) ==
    LET r == close_position(symbol, raw, fetch, order_type, limit_price, order)
    IN  /\ result' = [op |-> "close_position", arg |-> symbol,
                      ok |-> r.success, reason |-> r.reason]
        /\ gateway_calls' = r.calls
        /\ UNCHANGED <<now, limits, daily_trade_count, daily_pnl,
                       last_trade_time, trades_history, pending_monitors,
                       saved, next_order, monitor, workers>>

----------------------------------------------------------------------------
(* Commands that call _save_state outside any try block, run while the     *)
(* state file cannot be opened for writing: open() raises, nothing is      *)
(* written, and the exception leaves the command (reason "raised": the     *)
(* caller receives no result value).                                       *)

\* update_pnl
UpdatePnlRaises(trade_pnl) ==
    /\ daily_pnl + trade_pnl <= MaxPnl
    /\ daily_pnl + trade_pnl >= -MaxPnl
    /\ daily_pnl' = daily_pnl + trade_pnl
    /\ result' = [op |-> "update_pnl", arg |-> trade_pnl, ok |-> FALSE,
                  reason |-> "raised"]
    /\ gateway_calls' = <<>>
    /\ UNCHANGED <<monitor, workers>>
    /\ UNCHANGED <<now, limits, daily_trade_count, last_trade_time,
                   trades_history, pending_monitors, saved, next_order>>

\* get_trading_status when the count differs from the filled records
GetTradingStatusRaises ==
    LET cnt0 == gate_count(daily_trade_count, last_trade_time, now)
        pnl0 == gate_pnl(daily_pnl, last_trade_time, now)
        hist0 == gate_history(trades_history, last_trade_time, now)
        n == Cardinality(filled_trades_today(hist0, now))
    IN  /\ n # cnt0
        /\ daily_trade_count' = n
        /\ daily_pnl' = pnl0
        /\ trades_history' = hist0
        /\ result' = [op |-> "get_trading_status", arg |-> 0, ok |-> FALSE,
                      reason |-> "raised"]
        /\ gateway_calls' = <<>>
        /\ UNCHANGED <<monitor, workers>>
        /\ UNCHANGED <<now, limits, last_trade_time, pending_monitors,
                       saved, next_order>>

----------------------------------------------------------------------------
(* The monitoring system: start_monitoring, stop_monitoring and the loop   *)
(* of _monitor_positions.  A monitor thread is at "check" (the while       *)
(* test), in "cycle" (positions fetched, loop body running), in "sleep",   *)
(* or "exited".                                                            *)

\* what the monitor leaves alone
engine == <<now, limits, daily_trade_count, daily_pnl, last_trade_time,
            trades_history, saved, next_order, workers>>

Exited(pc) == pc = "exited"

\* what the handlers of start_monitoring and stop_monitoring leave alone
engine_but_workers == <<now, limits, daily_trade_count, daily_pnl,
                        last_trade_time, trades_history, saved, next_order>>

\* key == symbol or key in symbol or symbol in key
symbol_matches(key, symbol) ==
    key = symbol \/ is_substring(key, symbol) \/ is_substring(symbol, key)

\* find_monitor that lets the last matching target of the dict win
find_monitor_last(mons, symbol) ==
    IF \E i \in DOMAIN mons : symbol_matches(mons[i].key, symbol)
    THEN CHOOSE i \in DOMAIN mons :
            /\ symbol_matches(mons[i].key, symbol)
            /\ \A j \in DOMAIN mons :
                  symbol_matches(mons[j].key, symbol) => i >= j
    ELSE 0

\* the first target of the dict that matches the symbol, 0 for none
find_monitor(mons, symbol) ==
    IF \E i \in DOMAIN mons : symbol_matches(mons[i].key, symbol)
    THEN CHOOSE i \in DOMAIN mons :
            /\ symbol_matches(mons[i].key, symbol)
            /\ \A j \in DOMAIN mons :
                  symbol_matches(mons[j].key, symbol) => i <= j
    ELSE 0

\* float(ticker.get("last", 0))
current_price(last) == IF last = NoLast THEN 0 ELSE last

stop_loss_hit(side, price, stop_loss) ==
    /\ price # NoPrice
    /\ \/ side = "long" /\ price <= stop_loss
       \/ side = "short" /\ price >= stop_loss

\* take_profit_hit that compares a short like a long
take_profit_hit_ignores_side(side, price, take_profit) ==
    /\ price # NoPrice
    /\ side \in {"long", "short"} /\ price >= take_profit

take_profit_hit(side, price, take_profit) ==
    /\ price # NoPrice
    /\ \/ side = "long" /\ price >= take_profit
       \/ side = "short" /\ price <= take_profit

\* an else-if chain: take profit only for a target without a stop_loss
reaches_take_profit_else_if(trigger_close, stop_loss, take_profit) ==
    ~trigger_close /\ stop_loss = NoArg /\ take_profit # NoArg

\* the take-profit block is reached when no close was triggered before it
\* (the triggered branch ends in continue) and the target has a take_profit
reaches_take_profit(trigger_close, stop_loss, take_profit) ==
    ~trigger_close /\ take_profit # NoArg

\* after_close that drops the target whatever close_position returned
after_close_always_pops(mons, key, outcome) ==
    SelectSeq(mons, LAMBDA m : m.key # key)

\* pending_monitors after close_position returned for the target under key
after_close(mons, key, outcome) ==
    IF outcome = "closed" THEN SelectSeq(mons, LAMBDA m : m.key # key)
    ELSE mons

\* gateway calls of close_position
close_calls(outcome) ==
    IF outcome = "no_position" THEN <<GwCall("fetch_positions", NoOrder)>>
    ELSE <<GwCall("fetch_positions", NoOrder),
           GwCall("create_order", NoOrder)>>

\* the loop body for position number k; in holds what the gateway answers
check_position(mons, pos, k, in) ==
    LET i == find_monitor(mons, pos.symbol)
        target == mons[i]
        pnl_stop == pos.unrealizedPnl <= HardStopLoss
        sl_checked == ~pnl_stop /\ target.stop_loss # NoArg
        sl_hit == sl_checked
                  /\ stop_loss_hit(pos.side, current_price(in.sl_price),
                                   target.stop_loss)
        trigger_close == pnl_stop \/ sl_hit
        tp_checked == reaches_take_profit(trigger_close, target.stop_loss,
                                          target.take_profit)
        tp_hit == tp_checked
                  /\ take_profit_hit(pos.side, current_price(in.tp_price),
                                     target.take_profit)
        closing == trigger_close \/ tp_hit
        close_reason == IF pnl_stop THEN "pnl"
                        ELSE IF sl_hit THEN "stop_loss" ELSE "take_profit"
        fetch == <<GwCall("fetch_ticker", NoOrder)>>
    IN  IF i = 0
        THEN [mons |-> mons, attempts |-> <<>>, calls |-> <<>>,
              ticks |-> [sl_price |-> NotFetched, tp_price |-> NotFetched]]
        ELSE [mons |-> IF closing
                       THEN after_close(mons, target.key, in.close)
                       ELSE mons,
              attempts |-> IF closing
                           THEN <<[index |-> k, symbol |-> pos.symbol,
                                   key |-> target.key,
                                   reason |-> close_reason,
                                   success |-> in.close = "closed"]>>
                           ELSE <<>>,
              calls |-> (IF sl_checked THEN fetch ELSE <<>>)
                        \o (IF tp_checked THEN fetch ELSE <<>>)
                        \o (IF closing THEN close_calls(in.close) ELSE <<>>),
              ticks |-> [sl_price |-> IF sl_checked THEN in.sl_price
                                      ELSE NotFetched,
                         tp_price |-> IF tp_checked THEN in.tp_price
                                      ELSE NotFetched]]

\* a price-fetch error or a failed close met while checking a position
position_error(one) ==
    \/ one.ticks.sl_price = NoPrice
    \/ one.ticks.tp_price = NoPrice
    \/ \E n \in DOMAIN one.attempts : ~one.attempts[n].success

\* a loop body that gives up the cycle at the first position with an error
RECURSIVE run_cycle_stops_on_error(_, _, _, _)
run_cycle_stops_on_error(mons, k, ps, ins) ==
    IF k > Len(ps)
    THEN [mons |-> mons, attempts |-> <<>>, calls |-> <<>>, ticks |-> <<>>]
    ELSE LET one == check_position(mons, ps[k], k, ins[k])
             rest == IF position_error(one)
                     THEN [mons |-> one.mons, attempts |-> <<>>,
                           calls |-> <<>>, ticks |-> <<>>]
                     ELSE run_cycle_stops_on_error(one.mons, k + 1, ps, ins)
         IN  [mons |-> rest.mons,
              attempts |-> one.attempts \o rest.attempts,
              calls |-> one.calls \o rest.calls,
              ticks |-> <<one.ticks>> \o rest.ticks]

\* for position in positions: ..., from position number k on
RECURSIVE run_cycle(_, _, _, _)
run_cycle(mons, k, ps, ins) ==
    IF k > Len(ps)
    THEN [mons |-> mons, attempts |-> <<>>, calls |-> <<>>, ticks |-> <<>>]
    ELSE LET one == check_position(mons, ps[k], k, ins[k])
             rest == run_cycle(one.mons, k + 1, ps, ins)
         IN  [mons |-> rest.mons,
              attempts |-> one.attempts \o rest.attempts,
              calls |-> one.calls \o rest.calls,
              ticks |-> <<one.ticks>> \o rest.ticks]

\* what the gateway can answer to the calls the loop body makes for a
\* position: a price or an exception for each fetch_ticker, the outcome of
\* close_position; a call the body cannot make for the position has the
\* one answer NotFetched / "closed", which is never read
CycleInputs(mons, pos) ==
    LET i == find_monitor(mons, pos.symbol)
        priced == i # 0 /\ pos.unrealizedPnl > HardStopLoss
        answers == TickerPrices \cup {NoPrice, NoLast}
    IN  [sl_price : IF priced /\ mons[i].stop_loss # NoArg THEN answers
                    ELSE {NotFetched},
         tp_price : IF priced /\ mons[i].take_profit # NoArg THEN answers
                    ELSE {NotFetched},
         close : IF i # 0 THEN {"closed", "no_position", "order_error"}
                 ELSE {"closed"}]

\* start_monitoring that does not test monitoring_active
should_spawn_always(active) == TRUE

\* the test of start_monitoring
should_spawn(active) == ~active

StartMonitoring ==
    /\ ~joining
    /\ IF should_spawn(monitoring_active)
       THEN /\ Len(monitor_threads) < MaxThreads
            /\ monitoring_active' = TRUE
            /\ monitor_threads' = Append(monitor_threads, "check")
            /\ result' = [op |-> "start_monitoring", arg |-> 0, ok |-> TRUE,
                          reason |-> "started"]
       ELSE /\ UNCHANGED <<monitoring_active, monitor_threads>>
            /\ result' = [op |-> "start_monitoring", arg |-> 0, ok |-> FALSE,
                          reason |-> "running"]
    /\ gateway_calls' = <<>>
    /\ UNCHANGED <<engine, pending_monitors, joining, positions, tickers,
                   close_attempts>>

\* stop_monitoring up to the join
StopMonitoring ==
    /\ ~joining
    /\ monitoring_active' = FALSE
    /\ IF monitor_threads = <<>>
       THEN /\ joining' = FALSE
            /\ result' = [op |-> "stop_monitoring", arg |-> 0, ok |-> TRUE,
                          reason |-> "no_thread"]
       ELSE /\ joining' = TRUE
            /\ result' = [op |-> "join", arg |-> 0, ok |-> TRUE,
                          reason |-> ""]
    /\ gateway_calls' = <<>>
    /\ UNCHANGED <<engine, pending_monitors, monitor_threads, positions,
                   tickers, close_attempts>>

\* a join that does not wait for the thread
join_done_no_wait(threads) == TRUE

\* monitor_thread.join() can return
join_done(threads) == Exited(threads[Len(threads)])

\* stop_monitoring from the join to its return
JoinReturn ==
    /\ joining
    /\ join_done(monitor_threads)
    /\ joining' = FALSE
    /\ result' = [op |-> "stop_monitoring", arg |-> 0, ok |-> TRUE,
                  reason |-> "joined"]
    /\ gateway_calls' = <<>>
    /\ UNCHANGED <<engine, pending_monitors, monitoring_active,
                   monitor_threads, positions, tickers, close_attempts>>

\* while self.monitoring_active: positions = self.get_open_positions(),
\* the gateway reporting one of the given lists of positions
MonitorFetch(lists) ==
    \E i \in DOMAIN monitor_threads :
        /\ monitor_threads[i] = "check"
        /\ IF monitoring_active
           THEN \E ps \in lists :
                   /\ monitor_threads' =
                         [monitor_threads EXCEPT ![i] = "cycle"]
                   /\ positions' = ps
                   /\ tickers' = <<>>
                   /\ close_attempts' = <<>>
                   /\ gateway_calls' = <<GwCall("fetch_positions", NoOrder)>>
                   /\ result' = [op |-> "monitor_fetch", arg |-> 0,
                                 ok |-> TRUE, reason |-> ""]
           ELSE /\ monitor_threads' =
                      [monitor_threads EXCEPT ![i] = "exited"]
                /\ gateway_calls' = <<>>
                /\ result' = [op |-> "monitor_exit", arg |-> 0, ok |-> TRUE,
                              reason |-> ""]
                /\ UNCHANGED <<positions, tickers, close_attempts>>
        /\ UNCHANGED <<engine, pending_monitors, monitoring_active, joining>>

MonitorLoopTest == MonitorFetch(PositionLists)

\* the loop test while the account holds a book of several positions
MonitorLoopTestBook == MonitorFetch(BookLists)

\* the loop body over the positions fetched
MonitorCycle ==
    \E i \in DOMAIN monitor_threads :
        /\ monitor_threads[i] = "cycle"
        /\ \E ins \in [DOMAIN positions ->
                          UNION {CycleInputs(pending_monitors, positions[k]) :
                                   k \in DOMAIN positions}] :
              /\ \A k \in DOMAIN positions :
                    ins[k] \in CycleInputs(pending_monitors, positions[k])
              /\ LET cycle == run_cycle(pending_monitors, 1, positions, ins)
                 IN  /\ pending_monitors' = cycle.mons
                     /\ tickers' = cycle.ticks
                     /\ close_attempts' = cycle.attempts
                     /\ gateway_calls' = cycle.calls
        /\ monitor_threads' = [monitor_threads EXCEPT ![i] = "sleep"]
        /\ result' = [op |-> "monitor_cycle", arg |-> 0, ok |-> TRUE,
                      reason |-> ""]
        /\ UNCHANGED <<engine, monitoring_active, joining, positions>>

\* a loop that ends after a cycle in which a close attempt failed
MonitorWake_gives_up ==
    \E i \in DOMAIN monitor_threads :
        /\ monitor_threads[i] = "sleep"
        /\ monitor_threads' =
              [monitor_threads EXCEPT ![i] =
                  IF \E n \in DOMAIN close_attempts :
                        ~close_attempts[n].success
                  THEN "exited" ELSE "check"]
        /\ result' = [op |-> "monitor_sleep", arg |-> 0, ok |-> TRUE,
                      reason |-> ""]
        /\ gateway_calls' = <<>>
        /\ UNCHANGED <<engine, pending_monitors, monitoring_active, joining,
                       positions, tickers, close_attempts>>

\* time.sleep(self.check_interval) is over
MonitorWake ==
    \E i \in DOMAIN monitor_threads :
        /\ monitor_threads[i] = "sleep"
        /\ monitor_threads' = [monitor_threads EXCEPT ![i] = "check"]
        /\ result' = [op |-> "monitor_sleep", arg |-> 0, ok |-> TRUE,
                      reason |-> ""]
        /\ gateway_calls' = <<>>
        /\ UNCHANGED <<engine, pending_monitors, monitoring_active, joining,
                       positions, tickers, close_attempts>>

----------------------------------------------------------------------------
(* place_trade called from several threads at once (a market order of 1    *)
(* USD on BTC/USDT).  The engine holds no lock, so the threads interleave  *)
(* between the statements of place_trade, and inside                       *)
(* self.daily_trade_count += 1 between the read of the attribute and the   *)
(* write.  A worker is at "bump" (create_order has returned), at "store"   *)
(* (the count is read, not yet written back), at "append", or "done".      *)

\* place_trade up to the return of create_order
WorkerGate ==
    /\ Len(workers) < MaxWorkers
    /\ daily_trade_count' = gate_count(daily_trade_count, last_trade_time, now)
    /\ daily_pnl' = gate_pnl(daily_pnl, last_trade_time, now)
    /\ trades_history' = gate_history(trades_history, last_trade_time, now)
    /\ IF GateReason = "allowed" /\ next_order <= MaxOrders + MaxWorkers
       THEN /\ workers' = Append(workers, [pc |-> "bump", reg |-> 0,
                                           order_id |-> next_order])
            /\ next_order' = next_order + 1
            /\ UNCHANGED result
       ELSE /\ workers' = Append(workers, [pc |-> "done", reg |-> 0,
                                           order_id |-> NoOrder])
            /\ result' = [op |-> "place_trade", arg |-> 1, ok |-> FALSE,
                          reason |-> GateReason]
            /\ UNCHANGED next_order
    /\ UNCHANGED <<now, limits, last_trade_time, pending_monitors, saved,
                   gateway_calls, monitor>>

\* self.last_trade_time = datetime.now(), then the read of
\* self.daily_trade_count += 1
WorkerRead ==
    \E w \in DOMAIN workers :
        /\ workers[w].pc = "bump"
        /\ last_trade_time' = now
        /\ workers' = [workers EXCEPT ![w].pc = "store",
                                      ![w].reg = daily_trade_count]
        /\ UNCHANGED <<now, limits, daily_trade_count, daily_pnl,
                       trades_history, pending_monitors, saved, next_order,
                       gateway_calls, result, monitor>>

\* the write of self.daily_trade_count += 1
WorkerStore ==
    \E w \in DOMAIN workers :
        /\ workers[w].pc = "store"
        /\ daily_trade_count' = workers[w].reg + 1
        /\ workers' = [workers EXCEPT ![w].pc = "append"]
        /\ UNCHANGED <<now, limits, daily_pnl, last_trade_time,
                       trades_history, pending_monitors, saved, next_order,
                       gateway_calls, result, monitor>>

\* self.trades_history.append(trade_record); self._save_state(); return
WorkerAppend ==
    \E w \in DOMAIN workers :
        /\ workers[w].pc = "append"
        /\ LET hist1 == Append(trades_history,
                               [time |-> now, symbol |-> "BTCUSDT",
                                order_id |-> workers[w].order_id,
                                order_type |-> "market",
                                status |-> "filled"])
           IN  /\ trades_history' = hist1
               /\ saved' = save_state(daily_trade_count, daily_pnl,
                                      last_trade_time, hist1)
        /\ workers' = [workers EXCEPT ![w].pc = "done"]
        /\ result' = [op |-> "place_trade", arg |-> 1, ok |-> TRUE,
                      reason |-> "placed"]
        /\ UNCHANGED <<now, limits, daily_trade_count, daily_pnl,
                       last_trade_time, pending_monitors, next_order,
                       gateway_calls, monitor>>

----------------------------------------------------------------------------
(* start_monitoring and stop_monitoring called from command handlers that  *)
(* run at once.  Neither method takes a lock, so a handler can be          *)
(* preempted between the test of self.monitoring_active and the            *)
(* assignments under it, and between the assignment of stop_monitoring     *)
(* and its join.  A handler is at "spawn" (the test found the flag false), *)
(* at "join" (reg holds the number of the thread self.monitor_thread       *)
(* named when the handler read it), or "done".                             *)

\* start_monitoring: if not self.monitoring_active
StartMonitoringTest ==
    /\ Len(workers) < MaxWorkers
    /\ IF should_spawn(monitoring_active)
       THEN /\ workers' = Append(workers, [pc |-> "spawn", reg |-> 0,
                                           order_id |-> NoOrder])
            /\ UNCHANGED result
       ELSE /\ workers' = Append(workers, [pc |-> "done", reg |-> 0,
                                           order_id |-> NoOrder])
            /\ result' = [op |-> "start_monitoring", arg |-> 0, ok |-> FALSE,
                          reason |-> "running"]
    /\ gateway_calls' = <<>>
    /\ UNCHANGED <<engine_but_workers, pending_monitors, monitor>>

\* start_monitoring: self.monitoring_active = True and the start of the
\* thread
StartMonitoringSpawn ==
    \E w \in DOMAIN workers :
        /\ workers[w].pc = "spawn"
        /\ Len(monitor_threads) < MaxThreads
        /\ monitoring_active' = TRUE
        /\ monitor_threads' = Append(monitor_threads, "check")
        /\ workers' = [workers EXCEPT ![w].pc = "done"]
        /\ result' = [op |-> "start_monitoring", arg |-> 0, ok |-> TRUE,
                      reason |-> "started"]
        /\ gateway_calls' = <<>>
        /\ UNCHANGED <<engine_but_workers, pending_monitors, joining,
                       positions, tickers, close_attempts>>

\* stop_monitoring: self.monitoring_active = False and the read of
\* self.monitor_thread
StopMonitoringFlag ==
    /\ Len(workers) < MaxWorkers
    /\ monitoring_active' = FALSE
    /\ IF monitor_threads = <<>>
       THEN /\ workers' = Append(workers, [pc |-> "done", reg |-> 0,
                                           order_id |-> NoOrder])
            /\ result' = [op |-> "stop_monitoring", arg |-> 0, ok |-> TRUE,
                          reason |-> "no_thread"]
       ELSE /\ workers' = Append(workers, [pc |-> "join",
                                           reg |-> Len(monitor_threads),
                                           order_id |-> NoOrder])
            /\ result' = [op |-> "join", arg |-> 0, ok |-> TRUE,
                          reason |-> ""]
    /\ gateway_calls' = <<>>
    /\ UNCHANGED <<engine_but_workers, pending_monitors, monitor_threads,
                   joining, positions, tickers, close_attempts>>

\* stop_monitoring: self.monitor_thread.join() returns
StopMonitoringJoin ==
    \E w \in DOMAIN workers :
        /\ workers[w].pc = "join"
        /\ Exited(monitor_threads[workers[w].reg])
        /\ workers' = [workers EXCEPT ![w].pc = "done"]
        /\ result' = [op |-> "stop_monitoring", arg |-> 0, ok |-> TRUE,
                      reason |-> "joined"]
        /\ gateway_calls' = <<>>
        /\ UNCHANGED <<engine_but_workers, pending_monitors, monitor>>

----------------------------------------------------------------------------
(* close_position("BTCUSDT") called at once by the monitor loop and by     *)
(* command handlers while the account holds one BTCUSDT position.  The     *)
(* method holds no lock and keeps no note of a close in flight: a caller   *)
(* can be preempted between get_open_positions and create_order.  The      *)
(* exchange holds the position until the first reduce-only order arrives   *)
(* and refuses a reduce-only order that arrives after it.  A caller is at  *)
(* "order" (it found the position), at "closed" or "refused" (its          *)
(* create_order was answered), or "done" (it found no position); reg is    *)
(* FromMonitor for the call of the monitor loop.                           *)

FromCommand == 0
FromMonitor == 1

\* the exchange has filled a reduce-only order for the position
position_closed(ws) == \E w \in DOMAIN ws : ws[w].pc = "closed"

\* close_position up to the return of get_open_positions
ClosePositionFetch ==
    \E origin \in {FromCommand, FromMonitor} :
        /\ Len(workers) < MaxWorkers
        /\ origin = FromMonitor =>
              /\ pending_monitors # <<>>
              /\ \A w \in DOMAIN workers : workers[w].reg # FromMonitor
        /\ IF position_closed(workers)
           THEN /\ workers' = Append(workers, [pc |-> "done", reg |-> origin,
                                               order_id |-> NoOrder])
                /\ result' = [op |-> "close_position", arg |-> "BTCUSDT",
                              ok |-> FALSE, reason |-> "no_position"]
           ELSE /\ workers' = Append(workers, [pc |-> "order", reg |-> origin,
                                               order_id |-> NoOrder])
                /\ UNCHANGED result
        /\ gateway_calls' = <<GwCall("fetch_positions", NoOrder)>>
        /\ UNCHANGED <<engine_but_workers, pending_monitors, monitor>>

\* close_position from create_order to its return; the monitor loop then
\* drops the target of a position it closed
ClosePositionOrder ==
    \E w \in DOMAIN workers :
        LET accepted == ~position_closed(workers)
        IN  /\ workers[w].pc = "order"
            /\ workers' = [workers EXCEPT
                              ![w].pc = IF accepted THEN "closed"
                                        ELSE "refused",
                              ![w].order_id = next_order]
            /\ next_order' = next_order + 1
            /\ gateway_calls' = <<GwCall("create_order", next_order)>>
            /\ result' = [op |-> "close_position", arg |-> "BTCUSDT",
                          ok |-> accepted,
                          reason |-> IF accepted THEN "closed"
                                     ELSE "order_error"]
            /\ pending_monitors' =
                  IF workers[w].reg = FromMonitor
                  THEN after_close(pending_monitors, "BTCUSDT",
                                   IF accepted THEN "closed"
                                   ELSE "order_error")
                  ELSE pending_monitors
            /\ UNCHANGED <<now, limits, daily_trade_count, daily_pnl,
                           last_trade_time, trades_history, saved, monitor>>

----------------------------------------------------------------------------

Tick ==
    /\ now < MaxTime
    /\ now' = now + 1
    /\ result' = NoResult
    /\ gateway_calls' = <<>>
    /\ UNCHANGED <<monitor, workers>>
    /\ UNCHANGED <<limits, daily_trade_count, daily_pnl, last_trade_time,
                   trades_history, pending_monitors, saved, next_order>>

\* the monitoring system as the constructor leaves it
NoMonitor ==
    /\ monitoring_active = FALSE
    /\ monitor_threads = <<>>
    /\ joining = FALSE
    /\ positions = <<>>
    /\ tickers = <<>>
    /\ close_attempts = <<>>

\* the engine as the constructor leaves it when no state file exists
Init ==
    /\ now = 0
    /\ max_trades_per_day = DefaultMaxTrades
    /\ cooldown_minutes = DefaultCooldown
    /\ max_daily_loss = DefaultMaxDailyLoss
    /\ max_position_size = DefaultMaxPositionSize
    /\ daily_trade_count = 0
    /\ daily_pnl = 0
    /\ last_trade_time = NoTime
    /\ trades_history = <<>>
    /\ pending_monitors = <<>>
    /\ saved = NoFile
    /\ next_order = 1
    /\ gateway_calls = <<>>
    /\ result = NoResult
    /\ NoMonitor
    /\ workers = <<>>

\* the engine as constructed and then configured by one
\* update_risk_parameters(max_trades, cooldown_mins, max_loss, max_size)
Configured(max_trades, cooldown_mins, max_loss, max_size) ==
    /\ now = 0
    /\ max_trades_per_day = max_trades
    /\ cooldown_minutes = cooldown_mins
    /\ max_daily_loss = max_loss
    /\ max_position_size = max_size
    /\ daily_trade_count = 0
    /\ daily_pnl = 0
    /\ last_trade_time = NoTime
    /\ trades_history = <<>>
    /\ pending_monitors = <<>>
    /\ saved = save_state(0, 0, NoTime, <<>>)
    /\ next_order = 1
    /\ gateway_calls = <<>>
    /\ result = [op |-> "update_risk_parameters", arg |-> 0, ok |-> TRUE,
                 reason |-> ""]
    /\ NoMonitor
    /\ workers = <<>>

\* a new process: the constructor runs again, on the state file the
\* previous process left.  The limits are set from the literals, DailyState
\* is taken from the file when the file is dated today, the monitoring
\* system starts empty.
Restart ==
    LET today == saved.exists /\ saved.date = Day(now)
    IN  /\ max_trades_per_day' = DefaultMaxTrades
        /\ cooldown_minutes' = DefaultCooldown
        /\ max_daily_loss' = DefaultMaxDailyLoss
        /\ max_position_size' = DefaultMaxPositionSize
        /\ daily_trade_count' = IF today THEN saved.daily_trade_count ELSE 0
        /\ daily_pnl' = IF today THEN saved.daily_pnl ELSE 0
        /\ last_trade_time' = IF today THEN saved.last_trade_time ELSE NoTime
        /\ trades_history' = IF today THEN saved.trades_history ELSE <<>>
        /\ pending_monitors' = <<>>
        /\ monitoring_active' = FALSE
        /\ monitor_threads' = <<>>
        /\ joining' = FALSE
        /\ positions' = <<>>
        /\ tickers' = <<>>
        /\ close_attempts' = <<>>
        /\ workers' = <<>>
        /\ result' = [op |-> "restart", arg |-> 0, ok |-> TRUE, reason |-> ""]
        /\ gateway_calls' = <<>>
        /\ UNCHANGED <<now, saved, next_order>>

\* place_trade without protective prices
DoPlaceTrade ==
    \E symbol \in InputSymbols, side \in Sides, amount \in Amounts,
       price \in Prices, gateway \in GatewayOutcomes :
        PlaceTrade(symbol, side, amount, price, NoArg, NoArg, gateway)

\* place_trade with a stop-loss or take-profit price
DoPlaceProtectedTrade ==
    \E symbol \in InputSymbols, side \in Sides, amount \in Amounts,
       price \in Prices, stop_loss \in StopLossArgs,
       take_profit \in TakeProfitArgs, gateway \in GatewayOutcomes :
        /\ stop_loss # NoArg \/ take_profit # NoArg
        /\ PlaceTrade(symbol, side, amount, price, stop_loss, take_profit,
                      gateway)

\* place_trade while the state file cannot be written
DoPlaceTradeUnsaved ==
    \E symbol \in InputSymbols, side \in Sides, amount \in Amounts,
       price \in Prices :
        PlaceTrade(symbol, side, amount, price, NoArg, NoArg, "save_error")

DoCheckLimitOrderStatus ==
    \E order_id \in {NoOrder} \cup OrderIds : CheckLimitOrderStatus(order_id)

DoUpdateOrderStatus ==
    \E order_id \in OrderIds, new_status \in Statuses :
        UpdateOrderStatus(order_id, new_status)

DoUpdatePnl == \E trade_pnl \in PnlAmounts : UpdatePnl(trade_pnl)

DoUpdateMaxDailyLoss ==
    \E max_loss \in MaxDailyLossArgs \ {NoArg} :
        UpdateRiskParameters(NoArg, NoArg, max_loss, NoArg)

DoUpdateRiskParameters ==
    \E max_trades \in MaxTradesArgs, cooldown_mins \in CooldownArgs,
       max_loss \in MaxDailyLossArgs, max_size \in MaxPositionSizeArgs :
        UpdateRiskParameters(max_trades, cooldown_mins, max_loss, max_size)

DoUpdatePnlUnsaved == \E trade_pnl \in PnlAmounts : UpdatePnlRaises(trade_pnl)

\* close_position with any symbol, on any answer of the gateway
DoClosePosition ==
    \E symbol \in CloseSymbols, raw \in RawPositionLists,
       fetch \in FetchOutcomes, order_type \in CloseOrderTypes,
       limit_price \in LimitPrices, order \in CloseOutcomes :
        /\ fetch = "fetch_error" => raw = <<>>
        /\ ClosePosition(symbol, raw, fetch, order_type, limit_price, order)

\* close_position called by hand for a symbol that has a MonitorTarget,
\* while the gateway reports that position open (2 contracts) or none
DoCloseTargetPosition ==
    \E i \in DOMAIN pending_monitors, side \in PositionSides,
       held \in BOOLEAN, order \in CloseOutcomes :
        LET key == pending_monitors[i].key
            raw == IF held
                   THEN <<[symbol |-> key, side |-> side, contracts |-> 2]>>
                   ELSE <<>>
        IN  /\ ~held => (side = "long" /\ order = "ok")
            /\ ClosePosition(key, raw, "ok", "market", NoArg, order)

----------------------------------------------------------------------------
(* Specifications *)

\* every command of the engine
Next ==
    \/ Tick
    \/ CanTrade
    \/ DoPlaceTrade
    \/ DoPlaceProtectedTrade
    \/ DoCheckLimitOrderStatus
    \/ DoUpdateOrderStatus
    \/ DoUpdatePnl
    \/ GetTradingStatus
    \/ DoUpdateRiskParameters

Spec == Init /\ [][Next]_vars

\* sequences of place_trade and can_trade calls under fixed RiskLimits
InitPlace ==
    \E max_trades \in {0, 1, 2}, cooldown_mins \in {0, 1, 2},
       max_size \in {1, DefaultMaxPositionSize} :
        Configured(max_trades, cooldown_mins, DefaultMaxDailyLoss, max_size)

NextPlace ==
    \/ Tick
    \/ CanTrade
    \/ DoPlaceTrade
    \/ DoPlaceProtectedTrade

SpecPlace == InitPlace /\ [][NextPlace]_vars

\* the order lifecycle: placement, status checks, status report, under a
\* two-minute cooldown and the default values of the other limits
InitOrders ==
    Configured(DefaultMaxTrades, 2, DefaultMaxDailyLoss,
               DefaultMaxPositionSize)

NextOrders ==
    \/ Tick
    \/ CanTrade
    \/ DoPlaceTrade
    \/ DoCheckLimitOrderStatus
    \/ GetTradingStatus

SpecOrders == InitOrders /\ [][NextOrders]_vars

\* order statuses set by hand through update_order_status
NextStatus ==
    \/ Tick
    \/ DoPlaceTrade
    \/ DoCheckLimitOrderStatus
    \/ DoUpdateOrderStatus

SpecStatus == Init /\ [][NextStatus]_vars

\* the risk gate with every limit within reach: one or two trades a day, a
\* two-minute cooldown, a daily loss limit of 1 USD
InitGate ==
    \E max_trades \in {1, 2} :
        Configured(max_trades, 2, 1, DefaultMaxPositionSize)

NextGate ==
    \/ Tick
    \/ CanTrade
    \/ DoPlaceTrade
    \/ DoUpdatePnl

SpecGate == InitGate /\ [][NextGate]_vars

\* the RiskLimits over the life of the state file: updates with any
\* arguments, PnL updates, gate checks, process restarts
NextLimits ==
    \/ Tick
    \/ CanTrade
    \/ DoUpdatePnl
    \/ DoUpdateRiskParameters
    \/ Restart

SpecLimits == Init /\ [][NextLimits]_vars

\* placements that fail at the gateway or at the state file
NextFailure ==
    \/ Tick
    \/ CanTrade
    \/ DoPlaceTrade
    \/ DoPlaceTradeUnsaved

SpecFailure == Init /\ [][NextFailure]_vars

\* the engine after one accepted limit place_trade of 1 USD on BTC/USDT
\* with the given protective prices
InitMonitor ==
    \E stop_loss \in TargetPrices, take_profit \in TargetPrices :
        LET record == [time |-> 0, symbol |-> "BTCUSDT", order_id |-> 1,
                       order_type |-> "limit", status |-> "pending"]
        IN  /\ now = 0
            /\ max_trades_per_day = DefaultMaxTrades
            /\ cooldown_minutes = DefaultCooldown
            /\ max_daily_loss = DefaultMaxDailyLoss
            /\ max_position_size = DefaultMaxPositionSize
            /\ daily_trade_count = 0
            /\ daily_pnl = 0
            /\ last_trade_time = NoTime
            /\ trades_history = <<record>>
            /\ pending_monitors =
                  IF stop_loss # NoArg \/ take_profit # NoArg
                  THEN <<[key |-> "BTCUSDT", side |-> "buy",
                          stop_loss |-> stop_loss,
                          take_profit |-> take_profit]>>
                  ELSE <<>>
            /\ saved = save_state(0, 0, NoTime, <<record>>)
            /\ next_order = 2
            /\ gateway_calls = <<>>
            /\ result = [op |-> "place_trade", arg |-> 1, ok |-> TRUE,
                         reason |-> "placed"]
            /\ NoMonitor
            /\ workers = <<>>

NextMonitor ==
    \/ StartMonitoring
    \/ StopMonitoring
    \/ JoinReturn
    \/ MonitorLoopTest
    \/ MonitorCycle
    \/ MonitorWake

SpecMonitor == InitMonitor /\ [][NextMonitor]_vars

\* the engine after two accepted limit place_trade calls of 1 USD: on
\* BTC/USDT with a stop_loss, on ETH/USDT with a take_profit
InitCycle ==
    LET records == <<[time |-> 0, symbol |-> "BTCUSDT", order_id |-> 1,
                      order_type |-> "limit", status |-> "pending"],
                     [time |-> 0, symbol |-> "ETHUSDT", order_id |-> 2,
                      order_type |-> "limit", status |-> "pending"]>>
    IN  /\ now = 0
        /\ max_trades_per_day = DefaultMaxTrades
        /\ cooldown_minutes = DefaultCooldown
        /\ max_daily_loss = DefaultMaxDailyLoss
        /\ max_position_size = DefaultMaxPositionSize
        /\ daily_trade_count = 0
        /\ daily_pnl = 0
        /\ last_trade_time = NoTime
        /\ trades_history = records
        /\ pending_monitors =
              <<[key |-> "BTCUSDT", side |-> "buy", stop_loss |-> 100,
                 take_profit |-> NoArg],
                [key |-> "ETHUSDT", side |-> "buy", stop_loss |-> NoArg,
                 take_profit |-> 100]>>
        /\ saved = save_state(0, 0, NoTime, records)
        /\ next_order = 3
        /\ gateway_calls = <<>>
        /\ result = [op |-> "place_trade", arg |-> 1, ok |-> TRUE,
                     reason |-> "placed"]
        /\ NoMonitor
        /\ workers = <<>>

NextCycle ==
    \/ StartMonitoring
    \/ StopMonitoring
    \/ JoinReturn
    \/ MonitorLoopTestBook
    \/ MonitorCycle
    \/ MonitorWake

\* time.sleep(self.check_interval) of thread number i is over
MonitorWakeOf(i) ==
    /\ i \in DOMAIN monitor_threads
    /\ monitor_threads[i] = "sleep"
    /\ MonitorWake
    /\ monitor_threads'[i] = "check"

\* the loop test of thread number i
MonitorLoopTestOf(i) ==
    /\ i \in DOMAIN monitor_threads
    /\ monitor_threads[i] = "check"
    /\ MonitorLoopTestBook
    /\ monitor_threads'[i] # "check"

\* every monitor thread is scheduled again and again: its sleep ends and
\* its loop test, with the call of get_open_positions, returns
SpecCycle ==
    /\ InitCycle
    /\ [][NextCycle]_vars
    /\ \A i \in 1..MaxThreads :
          WF_vars(MonitorWakeOf(i)) /\ WF_vars(MonitorLoopTestOf(i))

\* two targets whose keys both match a BTCUSDT position, in the two orders
\* of insertion: one filed under the key BTC with both protective prices
\* at 100, one under BTCUSDT with a take_profit
MatchTargets ==
    LET short_key == [key |-> "BTC", side |-> "buy", stop_loss |-> 100,
                      take_profit |-> 100]
        full_key == [key |-> "BTCUSDT", side |-> "buy", stop_loss |-> NoArg,
                     take_profit |-> 100]
    IN  {<<short_key, full_key>>, <<full_key, short_key>>}

\* the engine after two accepted limit place_trade calls of 1 USD whose
\* orders the gateway reported under the symbols BTC and BTCUSDT
InitMatch ==
    \E targets \in MatchTargets :
        LET records == [n \in 1..2 |->
                          [time |-> 0, symbol |-> targets[n].key,
                           order_id |-> n, order_type |-> "limit",
                           status |-> "pending"]]
        IN  /\ now = 0
            /\ max_trades_per_day = DefaultMaxTrades
            /\ cooldown_minutes = DefaultCooldown
            /\ max_daily_loss = DefaultMaxDailyLoss
            /\ max_position_size = DefaultMaxPositionSize
            /\ daily_trade_count = 0
            /\ daily_pnl = 0
            /\ last_trade_time = NoTime
            /\ trades_history = records
            /\ pending_monitors = targets
            /\ saved = save_state(0, 0, NoTime, records)
            /\ next_order = 3
            /\ gateway_calls = <<>>
            /\ result = [op |-> "place_trade", arg |-> 1, ok |-> TRUE,
                         reason |-> "placed"]
            /\ NoMonitor
            /\ workers = <<>>

NextMatch ==
    \/ StartMonitoring
    \/ MonitorLoopTest
    \/ MonitorCycle
    \/ MonitorWake

SpecMatch == InitMatch /\ [][NextMatch]_vars

\* while a target is pending the account keeps a long BTCUSDT position
\* beyond the hard-stop threshold, alone or beside an ETHUSDT position
LosingLists ==
    LET losing == [symbol |-> "BTCUSDT", side |-> "long", unrealizedPnl |-> -6]
        other == [symbol |-> "ETHUSDT", side |-> "long", unrealizedPnl |-> -4]
    IN  {<<losing>>, <<other, losing>>}

\* the loop test while the trigger condition of the target keeps holding
MonitorLoopTestLosing ==
    MonitorFetch(IF pending_monitors # <<>> THEN LosingLists ELSE {<<>>})

\* the loop body of thread number i
MonitorCycleOf(i) ==
    /\ i \in DOMAIN monitor_threads
    /\ monitor_threads[i] = "cycle"
    /\ MonitorCycle
    /\ monitor_threads'[i] = "sleep"

\* the loop test of thread number i while the trigger condition holds
MonitorLoopTestLosingOf(i) ==
    /\ i \in DOMAIN monitor_threads
    /\ monitor_threads[i] = "check"
    /\ MonitorLoopTestLosing
    /\ monitor_threads'[i] # "check"

\* a cycle in which the gateway accepted a close order
AcceptedCycle ==
    /\ MonitorCycle
    /\ \E n \in DOMAIN close_attempts' : close_attempts'[n].success

NextRetry ==
    \/ StartMonitoring
    \/ StopMonitoring
    \/ JoinReturn
    \/ MonitorLoopTestLosing
    \/ MonitorCycle
    \/ MonitorWake

\* every monitor thread is scheduled again and again: its sleep ends, its
\* loop test and its loop body return
SpecRetry ==
    /\ InitMonitor
    /\ [][NextRetry]_vars
    /\ \A i \in 1..MaxThreads :
          /\ WF_vars(MonitorWakeOf(i))
          /\ WF_vars(MonitorLoopTestLosingOf(i))
          /\ WF_vars(MonitorCycleOf(i))

\* start_monitoring and stop_monitoring from concurrent handlers beside
\* the monitor loop
NextHandlers ==
    \/ StartMonitoringTest
    \/ StartMonitoringSpawn
    \/ StopMonitoringFlag
    \/ StopMonitoringJoin
    \/ MonitorLoopTestLosing
    \/ MonitorCycle
    \/ MonitorWake

\* every handler and every monitor thread is scheduled again and again, and
\* every gateway call of a cycle returns
SpecHandlers ==
    /\ InitMonitor
    /\ [][NextHandlers]_vars
    /\ WF_vars(StartMonitoringSpawn)
    /\ WF_vars(StopMonitoringJoin)
    /\ \A i \in 1..MaxThreads :
          /\ WF_vars(MonitorWakeOf(i))
          /\ WF_vars(MonitorLoopTestLosingOf(i))
          /\ WF_vars(MonitorCycleOf(i))

\* placements and fills under a quota of one or two trades a day
NextQuota ==
    \/ Tick
    \/ DoPlaceTrade
    \/ DoCheckLimitOrderStatus

SpecQuota == InitGate /\ [][NextQuota]_vars

\* the monitor loop and command handlers closing one position at once
NextClosers ==
    \/ ClosePositionFetch
    \/ ClosePositionOrder

SpecClosers == InitMonitor /\ [][NextClosers]_vars

\* the status report after placements and fills, under any small quota and
\* cooldown
NextReport ==
    \/ Tick
    \/ DoPlaceTrade
    \/ DoCheckLimitOrderStatus
    \/ GetTradingStatus

SpecReport == InitPlace /\ [][NextReport]_vars

\* concurrent market placements on one engine
NextConcurrent ==
    \/ WorkerGate
    \/ WorkerRead
    \/ WorkerStore
    \/ WorkerAppend

SpecConcurrent == Init /\ [][NextConcurrent]_vars

\* get_trading_status called while market placements are in flight on
\* other threads
NextSnapshot ==
    \/ WorkerGate
    \/ WorkerRead
    \/ WorkerStore
    \/ WorkerAppend
    \/ GetTradingStatus

SpecSnapshot == Init /\ [][NextSnapshot]_vars

\* the commands of the engine while the state file cannot be written
NextUnsaved ==
    \/ Tick
    \/ DoPlaceTradeUnsaved
    \/ DoCheckLimitOrderStatus
    \/ DoUpdatePnlUnsaved
    \/ GetTradingStatusRaises

SpecUnsaved == Init /\ [][NextUnsaved]_vars

\* close_position called by hand at any time
NextClose ==
    \/ DoClosePosition

SpecClose == Init /\ [][NextClose]_vars

\* closes by the monitor loop and by hand on the same engine
NextFrame ==
    \/ StartMonitoring
    \/ MonitorLoopTest
    \/ MonitorCycle
    \/ MonitorWake
    \/ DoCloseTargetPosition

SpecFrame == InitMonitor /\ [][NextFrame]_vars

\* trading days and process restarts over one state file
NextRestart ==
    \/ Tick
    \/ CanTrade
    \/ DoPlaceTrade
    \/ DoUpdatePnl
    \/ Restart

SpecRestart == Init /\ [][NextRestart]_vars

\* realized PnL and the limits
NextPnl ==
    \/ Tick
    \/ CanTrade
    \/ DoPlaceTrade
    \/ DoUpdatePnl
    \/ GetTradingStatus
    \/ DoUpdateMaxDailyLoss

SpecPnl == Init /\ [][NextPnl]_vars

----------------------------------------------------------------------------
(* Properties *)

GateOps == {"can_trade", "place_trade", "get_trading_status"}

\* the command just executed was a place_trade that the gateway accepted,
\* and it counted this many trades
JustCounted ==
    IF /\ result.op = "place_trade" /\ result.ok
       /\ trades_history[Len(trades_history)].order_type = "market"
    THEN 1 ELSE 0

\* C1: under place_trade / can_trade sequences with fixed RiskLimits the
\* trade count never exceeds max_trades_per_day; with the count at the
\* limit can_trade denies naming the limit, and place_trade is rejected
\* with that reason and counts nothing (an accepted place_trade always
\* started below the limit).
C1_TradeCountWithinLimit ==
    /\ daily_trade_count <= max_trades_per_day
    /\ (result.op = "can_trade" /\ daily_trade_count >= max_trades_per_day)
          => (~result.ok /\ result.reason = "max_trades")
    /\ (result.op = "place_trade" /\ ~result.ok
          /\ daily_trade_count >= max_trades_per_day)
          => result.reason = "max_trades"
    /\ (result.op = "place_trade" /\ result.ok)
          => daily_trade_count - JustCounted < max_trades_per_day

C1_Witness ==
    /\ result.op = "place_trade" /\ ~result.ok
    /\ result.reason = "max_trades"
    /\ max_trades_per_day > 0
    /\ daily_trade_count = max_trades_per_day
\* reasons with which the risk gate denies
GateDenials == {"max_trades", "cooldown", "daily_loss"}

\* the command just executed evaluated the risk gate, and the gate denied
GateDenied ==
    result.op \in GateOps /\ ~result.ok /\ result.reason \in GateDenials

\* record i was in the history before the command just executed
PlacedEarlier(i) ==
    ~(result.op = "place_trade" /\ result.ok /\ i = Len(trades_history))

\* C2 as stated: after any successful place_trade at time T (market or
\* limit) every gate evaluation before T + cooldown is denied, and one at or
\* after T + cooldown of every placed order is allowed when the count and
\* loss limits are not hit.
C2_Original ==
    result.op \in GateOps =>
      /\ \A i \in DOMAIN trades_history :
            (PlacedEarlier(i)
              /\ now < trades_history[i].time + cooldown_minutes)
              => GateDenied
      /\ (/\ result.op = "can_trade"
          /\ \A i \in DOMAIN trades_history :
                now >= trades_history[i].time + cooldown_minutes
          /\ daily_trade_count < max_trades_per_day
          /\ daily_pnl > -max_daily_loss)
            => result.ok

\* C2 (amended): after a successful market place_trade at time T every gate
\* evaluation (can_trade, place_trade, get_trading_status) before
\* T + cooldown is denied; the same holds before last_trade_time + cooldown
\* for the time of the latest fill; a cooldown denial occurs only inside
\* that window, and can_trade at or after last_trade_time + cooldown allows
\* when the count and loss limits are not hit.
C2_Cooldown ==
    result.op \in GateOps =>
      /\ \A i \in DOMAIN trades_history :
            (PlacedEarlier(i) /\ trades_history[i].order_type = "market"
              /\ now < trades_history[i].time + cooldown_minutes)
              => GateDenied
      /\ (last_trade_time # NoTime /\ JustCounted = 0
            /\ now < last_trade_time + cooldown_minutes)
            => GateDenied
      /\ result.reason = "cooldown"
            => (last_trade_time # NoTime
                 /\ now < last_trade_time + cooldown_minutes)
      /\ (/\ result.op = "can_trade"
          /\ last_trade_time # NoTime
               => now >= last_trade_time + cooldown_minutes
          /\ daily_trade_count < max_trades_per_day
          /\ daily_pnl > -max_daily_loss)
            => result.ok

C2_Witness ==
    /\ result.op = "can_trade" /\ ~result.ok /\ result.reason = "cooldown"
    /\ \E i \in DOMAIN trades_history :
          /\ trades_history[i].order_type = "market"
          /\ now > trades_history[i].time
          /\ now < trades_history[i].time + cooldown_minutes
\* the day-rollover condition of can_trade holds in the current state
Rollover ==
    last_trade_time # NoTime /\ last_trade_time \div DayLen < now \div DayLen

LossLimitHit == daily_pnl <= -max_daily_loss

StateOps == {"can_trade", "get_trading_status", "update_pnl",
             "check_limit_order_status"}

\* C4: a command that accesses DailyState on a day later than the date the
\* state was last saved under first resets it: nothing of the earlier day
\* is left in the count, the PnL or the history (update_pnl then adds its
\* amount to 0).
C4_StaleStateReset ==
    [][(result'.op \in StateOps /\ saved.exists /\ saved.date < Day(now))
         => /\ trades_history' = <<>>
            /\ daily_trade_count' = 0
            /\ result'.op # "update_pnl" => daily_pnl' = 0
            /\ result'.op = "update_pnl" => daily_pnl' = result'.arg
      ]_vars

\* C5: once the state holds a record dated today (so a can_trade has
\* already run today, inside the place_trade that made the record), a
\* further can_trade leaves count, PnL and history unchanged.
C5_ResetOncePerDay ==
    [][(/\ result'.op = "can_trade"
        /\ \E i \in DOMAIN trades_history :
              Day(trades_history[i].time) = Day(now))
         => UNCHANGED <<daily_trade_count, daily_pnl, trades_history>>
      ]_vars
\* daily_trade_count as the rollover test of can_trade leaves it
RolledCount == IF Rollover THEN 0 ELSE daily_trade_count

\* records that the step moves from pending to the given status
Moved(status) ==
    {i \in DOMAIN trades_history :
       /\ i \in DOMAIN trades_history'
       /\ trades_history[i].status = "pending"
       /\ trades_history'[i].status = status}

\* the record a successful place_trade step appends
NewRecord == trades_history'[Len(trades_history')]

\* the counting rule of C6, with base the count that a placement adds to
CountingRule(base) ==
    /\ (result'.op = "place_trade" /\ result'.ok
          /\ NewRecord.order_type = "market")
          => /\ NewRecord.status = "filled"
             /\ daily_trade_count' = base + 1
             /\ last_trade_time' = now
    /\ (result'.op = "place_trade" /\ result'.ok
          /\ NewRecord.order_type = "limit")
          => /\ NewRecord.status = "pending"
             /\ daily_trade_count' = base
             /\ last_trade_time' = last_trade_time
    /\ result'.op = "check_limit_order_status"
          => /\ daily_trade_count' =
                  daily_trade_count + Cardinality(Moved("filled"))
             /\ last_trade_time' = IF Moved("filled") # {} THEN now
                                   ELSE last_trade_time
             /\ \A i \in DOMAIN trades_history :
                   trades_history'[i].status # trades_history[i].status
                     => i \in Moved("filled") \cup Moved("canceled")

\* C6 as stated: a market placement adds exactly 1 to the count the command
\* found, a limit placement and a cancel add 0, a pending->filled move adds
\* 1 and stamps last_trade_time.
C6_Original == [][CountingRule(daily_trade_count)]_vars

\* C6 (amended): the same rule, counted from the value the day-rollover
\* reset of place_trade's own can_trade leaves (0 when last_trade_time is on
\* an earlier day, else the count the command found).
C6_FillCounting == [][CountingRule(RolledCount)]_vars

C6_Witness ==
    /\ result.op = "check_limit_order_status" /\ result.reason = "updated"
    /\ last_trade_time = now
    /\ daily_trade_count >= 1
    /\ \E i \in DOMAIN trades_history :
          /\ trades_history[i].order_type = "limit"
          /\ trades_history[i].status = "filled"

\* C7: a record (identified by its order id) that is filled or canceled
\* keeps that status, a pending one moves only to filled or canceled, and a
\* market record is filled; so no record is counted twice.
C7_StatusMonotone ==
    [][/\ \A i \in DOMAIN trades_history, j \in DOMAIN trades_history' :
             trades_history[i].order_id = trades_history'[j].order_id
               => /\ trades_history[i].status # "pending"
                       => trades_history'[j].status = trades_history[i].status
                  /\ trades_history'[j].status # trades_history[i].status
                       => daily_trade_count' <= daily_trade_count + 1
       /\ \A j \in DOMAIN trades_history' :
             /\ trades_history'[j].status \in {"pending", "filled", "canceled"}
             /\ trades_history'[j].order_type = "market"
                  => trades_history'[j].status = "filled"
      ]_vars

\* number of filled records dated today, counted on the history
FilledToday(hist) ==
    Cardinality({i \in DOMAIN hist :
                   /\ hist[i].status = "filled"
                   /\ hist[i].time \div DayLen = now \div DayLen})

\* C8: get_trading_status leaves daily_trade_count = N, the number of filled
\* records dated today, whatever the counter was; it writes the state file
\* only when the counter differed from N, and then the file holds N.
C8_Reconciled ==
    [][result'.op = "get_trading_status"
         => /\ daily_trade_count' = FilledToday(trades_history')
            /\ saved' # saved => RolledCount # FilledToday(trades_history')
            /\ RolledCount # FilledToday(trades_history')
                 => /\ saved'.exists /\ saved'.date = Day(now)
                    /\ saved'.daily_trade_count = FilledToday(trades_history')
      ]_vars

C8_Witness ==
    /\ result.op = "get_trading_status"
    /\ daily_trade_count = 0
    /\ last_trade_time # NoTime /\ Day(last_trade_time) = Day(now)
    /\ \E i \in DOMAIN trades_history :
          /\ trades_history[i].status = "filled"
          /\ Day(trades_history[i].time) < Day(now)
    /\ saved.daily_trade_count = 0 /\ saved.date = Day(now)

Resolved(trade) == trade.status \in {"filled", "canceled"}

\* C9: check_limit_order_status makes no fetch_order call for a record that
\* is already filled or canceled and leaves that record as it is; called
\* with the id of such a record, or when no record is pending, it makes no
\* gateway call and changes neither history, count, last_trade_time nor the
\* state file.
C9_CheckIdempotent ==
    [][result'.op = "check_limit_order_status"
            => /\ \A i \in DOMAIN trades_history :
                     Resolved(trades_history[i])
                       => /\ trades_history'[i] = trades_history[i]
                          /\ \A k \in DOMAIN gateway_calls' :
                                gateway_calls'[k].order_id
                                  # trades_history[i].order_id
               /\ (\A i \in DOMAIN trades_history :
                      Resolved(trades_history[i]))
                     => /\ gateway_calls' = <<>>
                        /\ UNCHANGED <<trades_history, daily_trade_count,
                                       last_trade_time, saved>>
               /\ (\E i \in DOMAIN trades_history :
                      /\ trades_history[i].order_id = result'.arg
                      /\ Resolved(trades_history[i]))
                     => /\ gateway_calls' = <<>>
                        /\ UNCHANGED <<trades_history, daily_trade_count,
                                       last_trade_time, saved>>
      ]_vars

C9_Witness ==
    /\ result.op = "check_limit_order_status"
    /\ result.reason = "no_pending"
    /\ gateway_calls = <<>>
    /\ \E i \in DOMAIN trades_history :
          /\ trades_history[i].order_type = "limit"
          /\ Resolved(trades_history[i])

\* the risk gate denies in the current state (the three checks in the
\* words of the claim, on the state after the rollover test)
GateWouldDeny ==
    \/ RolledCount >= max_trades_per_day
    \/ (last_trade_time # NoTime
          /\ now < last_trade_time + cooldown_minutes)
    \/ (IF Rollover THEN 0 ELSE daily_pnl) <= -max_daily_loss

\* what a place_trade rejected by the gate or the size cap leaves alone;
\* count is the value daily_trade_count is required to keep
RejectionFrame(count) ==
    /\ gateway_calls' = <<>>
    /\ \A j \in DOMAIN trades_history' :
          \E i \in DOMAIN trades_history :
            trades_history'[j] = trades_history[i]
    /\ pending_monitors' = pending_monitors
    /\ last_trade_time' = last_trade_time
    /\ daily_trade_count' = count

\* the rejection rule of C10
RejectionRule(count) ==
    result'.op = "place_trade"
      => /\ GateWouldDeny
              => (~result'.ok /\ result'.reason \in GateDenials)
         /\ result'.arg > max_position_size
              => (~result'.ok
                   /\ result'.reason \in GateDenials \cup {"size"})
         /\ (~GateWouldDeny /\ result'.arg <= max_position_size)
              => result'.reason \notin GateDenials \cup {"size"}
         /\ result'.reason \in GateDenials \cup {"size"}
              => RejectionFrame(count)

RolledPnl == IF Rollover THEN 0 ELSE daily_pnl

\* the first failing check, in the order count, cooldown, loss
FirstFailingCheck ==
    IF RolledCount >= max_trades_per_day THEN "max_trades"
    ELSE IF last_trade_time # NoTime
            /\ now < last_trade_time + cooldown_minutes THEN "cooldown"
    ELSE IF RolledPnl <= -max_daily_loss THEN "daily_loss"
    ELSE "allowed"

\* C11: can_trade reports exactly the first failing check in the order
\* count, cooldown, daily loss, and allows when none fails; when the
\* day-rollover test does not fire it changes nothing of the engine; a
\* second can_trade at the same instant returns what the first returned.
C11_FirstFailingCheck ==
    [][result'.op = "can_trade"
         => /\ result'.reason = FirstFailingCheck
            /\ result'.ok = (FirstFailingCheck = "allowed")
            /\ ~Rollover
                 => UNCHANGED <<now, limits, daily_trade_count, daily_pnl,
                                last_trade_time, trades_history,
                                pending_monitors, saved, next_order, monitor>>
            /\ result.op = "can_trade" => result' = result
      ]_vars

C11_Witness ==
    /\ result.op = "can_trade" /\ ~result.ok
    /\ result.reason = "max_trades"
    /\ daily_trade_count >= max_trades_per_day
    /\ last_trade_time # NoTime /\ now < last_trade_time + cooldown_minutes
    /\ daily_pnl <= -max_daily_loss

\* C12: a limit changes only in an update_risk_parameters step, and there
\* each limit keeps its value or takes a value the call can supply; no
\* other step (PnL update, gate check, clock, process restart) changes one.
C12_LimitsFrame ==
    [][/\ limits' # limits => result'.op = "update_risk_parameters"
       /\ result'.op = "update_risk_parameters"
            => /\ max_trades_per_day'
                    \in {max_trades_per_day} \cup (MaxTradesArgs \ {NoArg})
               /\ cooldown_minutes'
                    \in {cooldown_minutes} \cup (CooldownArgs \ {NoArg})
               /\ max_daily_loss'
                    \in {max_daily_loss} \cup (MaxDailyLossArgs \ {NoArg})
               /\ max_position_size'
                    \in {max_position_size}
                         \cup (MaxPositionSizeArgs \ {NoArg})
      ]_vars

\* C13: the RiskLimits are always well-formed.
C13_LimitsWellFormed ==
    /\ max_trades_per_day >= 0
    /\ cooldown_minutes >= 0
    /\ max_daily_loss > 0
    /\ max_position_size > 0

\* C14: a place_trade that fails at the price fetch or at create_order
\* returns success=false and leaves history, count, last_trade_time and
\* the MonitorTargets as they were; and whenever place_trade returns
\* success=false the gateway accepted no order and the count was not
\* incremented.
C14_FailedPlacement ==
    [][result'.op = "place_trade"
         => /\ result'.reason \in {"price", "order"}
                 => /\ ~result'.ok
                    /\ UNCHANGED <<trades_history, daily_trade_count,
                                   last_trade_time, pending_monitors>>
            /\ ~result'.ok
                 => /\ next_order' = next_order
                    /\ daily_trade_count' <= daily_trade_count
      ]_vars

\* position number k has a close attempt of the latest cycle
Attempted(k, log) == \E a \in DOMAIN log : log[a].index = k

AttemptedFor(k, log, reason) ==
    \E a \in DOMAIN log : log[a].index = k /\ log[a].reason = reason

\* C15: after a monitor cycle every position the gateway reported with an
\* unrealized PnL <= -5 has a close attempt made for the hard stop, with or
\* without a matching MonitorTarget.
C15_HardStop ==
    result.op = "monitor_cycle"
      => \A k \in DOMAIN positions :
            positions[k].unrealizedPnl <= HardStopLoss
              => AttemptedFor(k, close_attempts, "pnl")

\* the target that position number k meets in the cycle the step runs: the
\* first one of pending_monitors under the position's symbol, unless a
\* close for an earlier position of the cycle has removed it; 0 for none
TargetOf(k) ==
    LET hits == {i \in DOMAIN pending_monitors :
                   pending_monitors[i].key = positions[k].symbol}
    IN  IF hits = {} THEN 0
        ELSE LET i == CHOOSE i \in hits : \A j \in hits : i <= j
             IN  IF \E a \in DOMAIN close_attempts' :
                       /\ close_attempts'[a].index < k
                       /\ close_attempts'[a].success
                       /\ close_attempts'[a].key = pending_monitors[i].key
                 THEN 0 ELSE i

Known(price) == price \notin {NoPrice, NotFetched}

\* the price cases of C16 for position number k and its target
StopLossCase(k, target) ==
    /\ target.stop_loss # NoArg
    /\ Known(tickers'[k].sl_price)
    /\ \/ /\ positions[k].side = "long"
          /\ current_price(tickers'[k].sl_price) <= target.stop_loss
       \/ /\ positions[k].side = "short"
          /\ current_price(tickers'[k].sl_price) >= target.stop_loss

TakeProfitCase(k, target) ==
    /\ target.take_profit # NoArg
    /\ Known(tickers'[k].tp_price)
    /\ \/ /\ positions[k].side = "long"
          /\ current_price(tickers'[k].tp_price) >= target.take_profit
       \/ /\ positions[k].side = "short"
          /\ current_price(tickers'[k].tp_price) <= target.take_profit

\* C16: in a monitor cycle a matched position above the hard-loss threshold
\* gets a price-based close attempt exactly when its stop-loss case or its
\* take-profit case holds for the price read from the ticker and the
\* position's reported side; for a short with take_profit = 100 a price of 95 triggers
\* and a price of 105 does not.
C16_PriceTriggers ==
    [][result'.op = "monitor_cycle"
         => \A k \in DOMAIN positions :
               (TargetOf(k) # 0 /\ positions[k].unrealizedPnl > HardStopLoss)
                 => LET target == pending_monitors[TargetOf(k)]
                    IN  /\ Attempted(k, close_attempts')
                             <=> (StopLossCase(k, target)
                                    \/ TakeProfitCase(k, target))
                        /\ AttemptedFor(k, close_attempts', "stop_loss")
                             <=> StopLossCase(k, target)
                        /\ ~AttemptedFor(k, close_attempts', "pnl")
                        /\ (/\ positions[k].side = "short"
                            /\ target.take_profit = 100
                            /\ target.stop_loss = NoArg)
                             => /\ tickers'[k].tp_price = 95
                                     => Attempted(k, close_attempts')
                                /\ tickers'[k].tp_price = 105
                                     => ~Attempted(k, close_attempts')
      ]_vars

C16_Witness ==
    /\ result.op = "monitor_cycle"
    /\ \E a \in DOMAIN close_attempts :
          /\ close_attempts[a].reason = "take_profit"
          /\ positions[close_attempts[a].index].side = "short"
          /\ positions[close_attempts[a].index].unrealizedPnl > HardStopLoss
          /\ tickers[close_attempts[a].index].tp_price = 95

\* C17: in a monitor cycle a target is removed from pending_monitors exactly
\* when a close attempted for it succeeded; after a failed close it is
\* still there, unchanged; and the cycle attempts the close of every
\* matched position whose hard-stop trigger holds, whatever earlier cycles
\* did.
C17_CloseThenRetarget ==
    [][result'.op = "monitor_cycle"
         => /\ \A a \in DOMAIN close_attempts' :
                  close_attempts'[a].success
                    => \A i \in DOMAIN pending_monitors' :
                          pending_monitors'[i].key # close_attempts'[a].key
            /\ \A i \in DOMAIN pending_monitors :
                  (\A a \in DOMAIN close_attempts' :
                      close_attempts'[a].key = pending_monitors[i].key
                        => ~close_attempts'[a].success)
                    => \E j \in DOMAIN pending_monitors' :
                          pending_monitors'[j] = pending_monitors[i]
            /\ \A j \in DOMAIN pending_monitors' :
                  \E i \in DOMAIN pending_monitors :
                     pending_monitors'[j] = pending_monitors[i]
            /\ \A k \in DOMAIN positions :
                  (TargetOf(k) # 0
                     /\ positions[k].unrealizedPnl <= HardStopLoss)
                    => AttemptedFor(k, close_attempts', "pnl")
      ]_vars

C17_Witness ==
    /\ result.op = "monitor_cycle"
    /\ \E a \in DOMAIN close_attempts :
          /\ ~close_attempts[a].success
          /\ \E i \in DOMAIN pending_monitors :
                pending_monitors[i].key = close_attempts[a].key

\* number of monitor loops that have not exited
LiveLoops(threads) ==
    Cardinality({i \in DOMAIN threads : threads[i] # "exited"})

\* C18: at most one monitor loop is alive; start_monitoring on a running
\* monitor spawns nothing; stop_monitoring on a stopped monitor changes
\* neither the flag nor the threads; start_monitoring on a stopped monitor
\* leaves exactly one loop alive, the new one.
C18_OneMonitorLoop ==
    [][/\ LiveLoops(monitor_threads') <= 1
       /\ (result'.op = "start_monitoring" /\ monitoring_active)
            => UNCHANGED <<monitoring_active, monitor_threads>>
       /\ (result'.op \in {"join", "stop_monitoring"}
             /\ ~monitoring_active /\ LiveLoops(monitor_threads) = 0)
            => UNCHANGED <<monitoring_active, monitor_threads,
                           pending_monitors>>
       /\ (result'.op = "start_monitoring" /\ ~monitoring_active)
            => /\ monitoring_active'
               /\ LiveLoops(monitor_threads) = 0
               /\ Len(monitor_threads') = Len(monitor_threads) + 1
               /\ monitor_threads'[Len(monitor_threads')] = "check"
      ]_vars

C18_Witness ==
    /\ result.op = "start_monitoring" /\ result.ok
    /\ Len(monitor_threads) = 2
    /\ monitor_threads[1] = "exited"
    /\ monitor_threads[2] = "check"

\* C19: stop_monitoring returns only when every monitor loop has exited;
\* while the monitor is stopped and no stop_monitoring is waiting, no step
\* makes a gateway call, logs a close attempt, fetches positions or prices,
\* or removes a MonitorTarget, and only start_monitoring changes the
\* threads.
C19_StopJoins ==
    [][/\ result'.op = "stop_monitoring"
            => \A i \in DOMAIN monitor_threads' :
                  monitor_threads'[i] = "exited"
       /\ (~monitoring_active /\ ~joining)
            => /\ UNCHANGED <<pending_monitors, positions, tickers,
                              close_attempts>>
               /\ gateway_calls' = <<>>
               /\ monitor_threads' # monitor_threads
                    => result'.op = "start_monitoring"
      ]_vars

C19_Witness ==
    /\ result.op = "stop_monitoring" /\ result.reason = "joined"
    /\ close_attempts # <<>>
    /\ monitor_threads # <<>>
    /\ \A i \in DOMAIN monitor_threads : monitor_threads[i] = "exited"

\* the concurrent commands whose order the gateway accepted
Fills == {w \in DOMAIN workers : workers[w].order_id # NoOrder}

\* C20: when all concurrent commands have returned, daily_trade_count has
\* grown by the number of fills they recorded and trades_history holds one
\* record for each of them.
C20_Serialized ==
    (workers # <<>> /\ \A w \in DOMAIN workers : workers[w].pc = "done")
      => /\ daily_trade_count = Cardinality(Fills)
         /\ \A w \in Fills :
               \E i \in DOMAIN trades_history :
                  trades_history[i].order_id = workers[w].order_id

\* a placement has bumped the count and not yet appended its record
BumpedNotAppended == \E w \in DOMAIN workers : workers[w].pc = "append"

\* C21: a get_trading_status that runs while a place_trade is between the
\* bump of daily_trade_count and the append of its record does not lower
\* the count.
C21_ConsistentSnapshot ==
    [][(result'.op = "get_trading_status" /\ BumpedNotAppended)
         => daily_trade_count' >= daily_trade_count
      ]_vars

\* C22: no command lets an exception escape to its caller; each one
\* returns a result value, also when the state file cannot be written.
C22_NoEscape == result.reason # "raised"

\* the create_order calls of the command just executed
OrdersSubmitted ==
    {k \in DOMAIN gateway_calls : gateway_calls[k].fn = "create_order"}

\* the open positions fetch_positions gave to the close_position just
\* executed: those with a positive quantity, none when the fetch failed
OpenReported ==
    IF gateway_calls[1].ok
    THEN SelectSeq(gateway_calls[1].answer, LAMBDA p : p.contracts > 0)
    ELSE <<>>

\* the open positions whose symbol equals, contains or is contained in the
\* symbol close_position was called with
Matching ==
    {i \in DOMAIN OpenReported :
       \/ is_substring(result.arg, OpenReported[i].symbol)
       \/ is_substring(OpenReported[i].symbol, result.arg)}

\* C30: close_position submits at most one order; the order is reduce-only,
\* on the symbol of the first matching open position, on the side opposite
\* to that position and for its full quantity; when no open position
\* matches, or positions cannot be fetched, it returns success=false and
\* submits no order; when it returns success it has submitted one.
C30_ReduceOnlyClose ==
    result.op = "close_position"
      => /\ Cardinality(OrdersSubmitted) <= 1
         /\ Matching = {} => (~result.ok /\ OrdersSubmitted = {})
         /\ result.ok => OrdersSubmitted # {}
         /\ \A k \in OrdersSubmitted :
               /\ Matching # {}
               /\ LET first == CHOOSE i \in Matching :
                                  \A j \in Matching : i <= j
                      position == OpenReported[first]
                  IN  /\ gateway_calls[k].reduceOnly
                      /\ gateway_calls[k].symbol = position.symbol
                      /\ gateway_calls[k].amount = position.contracts
                      /\ position.side = "long"
                           => gateway_calls[k].side = "sell"
                      /\ position.side = "short"
                           => gateway_calls[k].side = "buy"

C30_Witness ==
    /\ result.op = "close_position" /\ result.ok /\ result.arg = "BTC"
    /\ Len(gateway_calls[1].answer) = 2
    /\ gateway_calls[1].answer[1].symbol = "ETHUSDT"
    /\ gateway_calls[1].answer[2].side = "short"
    /\ gateway_calls[2].fn = "create_order"
    /\ gateway_calls[2].side = "buy"
    /\ gateway_calls[2].type = "limit"

\* C23: a close_position command and a whole monitor cycle, whether their
\* closes succeed or fail, leave daily_trade_count, daily_pnl,
\* last_trade_time, trades_history, the RiskLimits and the state file
\* unchanged; the command leaves the MonitorTargets unchanged too, and the
\* cycle only removes targets, each one after a successful close for it.
C23_CloseFrame ==
    [][result'.op \in {"close_position", "monitor_cycle"}
         => /\ UNCHANGED <<daily_trade_count, daily_pnl, last_trade_time,
                           trades_history, limits, saved>>
            /\ result'.op = "close_position" => UNCHANGED pending_monitors
            /\ \A j \in DOMAIN pending_monitors' :
                  \E i \in DOMAIN pending_monitors :
                     pending_monitors'[j] = pending_monitors[i]
            /\ \A i \in DOMAIN pending_monitors :
                  (\A j \in DOMAIN pending_monitors' :
                      pending_monitors'[j] # pending_monitors[i])
                    => \E a \in DOMAIN close_attempts' :
                          /\ close_attempts'[a].key = pending_monitors[i].key
                          /\ close_attempts'[a].success
      ]_vars

C23_Witness ==
    /\ result.op = "close_position" /\ result.ok
    /\ trades_history # <<>>
    /\ pending_monitors # <<>>
    /\ \E a \in DOMAIN close_attempts : ~close_attempts[a].success

\* C24: update_pnl(amount) sets daily_pnl to its previous value plus amount
\* and writes the state file with that value; it changes neither the count,
\* last_trade_time, the history, the MonitorTargets nor the limits, and
\* makes no gateway call (so it closes no position), also when the new
\* total is <= -max_daily_loss.
C24_UpdatePnlFrame ==
    [][result'.op = "update_pnl"
         => /\ daily_pnl' = daily_pnl + result'.arg
            /\ saved'.exists /\ saved'.daily_pnl = daily_pnl'
            /\ saved'.daily_trade_count = daily_trade_count
            /\ saved'.last_trade_time = last_trade_time
            /\ saved'.trades_history = trades_history
            /\ gateway_calls' = <<>>
            /\ UNCHANGED <<daily_trade_count, last_trade_time,
                           trades_history, pending_monitors, limits,
                           next_order, monitor>>
      ]_vars

C24_Witness ==
    /\ result.op = "update_pnl" /\ result.arg < 0
    /\ daily_pnl <= -max_daily_loss
    /\ saved.daily_pnl = daily_pnl
    /\ trades_history # <<>>
    /\ gateway_calls = <<>>

\* C25: the date stored in the state file is the day its records were made
\* on, and the records a new process adopts from the file are records of
\* the day it starts on.
C25_DateOfState ==
    /\ saved.exists
         => \A i \in DOMAIN saved.trades_history :
               Day(saved.trades_history[i].time) = saved.date
    /\ result.op = "restart"
         => \A i \in DOMAIN trades_history :
               Day(trades_history[i].time) = Day(now)

\* commands of the engine that run to completion in one step
Commands == {"can_trade", "place_trade", "check_limit_order_status",
             "update_order_status", "update_pnl", "get_trading_status",
             "update_risk_parameters"}

\* C26: when a command has completed, the state file holds the in-memory
\* daily_trade_count, daily_pnl, last_trade_time and trades_history.
C26_PersistedIsMemory ==
    result.op \in Commands
      => /\ saved.exists
         /\ saved.daily_trade_count = daily_trade_count
         /\ saved.daily_pnl = daily_pnl
         /\ saved.last_trade_time = last_trade_time
         /\ saved.trades_history = trades_history

\* the cycle fetched a price for the take-profit check of position k
TakeProfitEvaluated(k) == tickers'[k].tp_price # NotFetched

\* C27 as stated: the take-profit condition of a matched target is
\* evaluated only when the hard-loss rule did not fire and the target has no
\* stop_loss price; a target with a stop_loss is never closed by its
\* take_profit.
C27_Original ==
    [][result'.op = "monitor_cycle"
         => \A k \in DOMAIN positions :
               TargetOf(k) # 0
                 => LET target == pending_monitors[TargetOf(k)]
                    IN  /\ TakeProfitEvaluated(k)
                             => /\ positions[k].unrealizedPnl > HardStopLoss
                                /\ target.stop_loss = NoArg
                        /\ target.stop_loss # NoArg
                             => ~AttemptedFor(k, close_attempts',
                                              "take_profit")
      ]_vars

\* C27 (amended): the take-profit condition of a matched target is
\* evaluated exactly when the target has a take_profit price and neither
\* the hard-loss rule nor the stop-loss condition triggered a close for the
\* position in that cycle (no stop_loss price, condition not met, or its
\* price fetch failed); a take-profit close is attempted exactly when the
\* condition is evaluated and holds, also for a target that carries a
\* stop_loss, and then no other close is attempted for the position.
C27_TakeProfitAfterStopLoss ==
    [][result'.op = "monitor_cycle"
         => \A k \in DOMAIN positions :
               TargetOf(k) # 0
                 => LET target == pending_monitors[TargetOf(k)]
                    IN  /\ TakeProfitEvaluated(k)
                             <=> /\ target.take_profit # NoArg
                                 /\ positions[k].unrealizedPnl > HardStopLoss
                                 /\ ~StopLossCase(k, target)
                        /\ AttemptedFor(k, close_attempts', "take_profit")
                             <=> (TakeProfitEvaluated(k)
                                    /\ TakeProfitCase(k, target))
                        /\ AttemptedFor(k, close_attempts', "take_profit")
                             => /\ ~AttemptedFor(k, close_attempts', "pnl")
                                /\ ~AttemptedFor(k, close_attempts',
                                                 "stop_loss")
      ]_vars

C27_Witness ==
    /\ result.op = "monitor_cycle"
    /\ \E a \in DOMAIN close_attempts :
          /\ close_attempts[a].reason = "take_profit"
          /\ tickers[close_attempts[a].index].sl_price \in TickerPrices
          /\ tickers[close_attempts[a].index].tp_price \in TickerPrices

\* C29: a stop-loss or take-profit close is attempted only on a price the
\* gateway returned for the position in that cycle; a failed price fetch
\* or a ticker without a last price triggers none.
C29_NoDefaultedPrice ==
    result.op = "monitor_cycle"
      => \A a \in DOMAIN close_attempts :
            /\ close_attempts[a].reason = "stop_loss"
                 => tickers[close_attempts[a].index].sl_price
                      \in TickerPrices
            /\ close_attempts[a].reason = "take_profit"
                 => tickers[close_attempts[a].index].tp_price
                      \in TickerPrices

\* the cycle just run met a price-fetch error or a failed close at position
\* number k
CycleErrorAt(k) ==
    /\ k \in DOMAIN tickers
    /\ \/ tickers[k].sl_price = NoPrice
       \/ tickers[k].tp_price = NoPrice
       \/ \E n \in DOMAIN close_attempts :
             close_attempts[n].index = k /\ ~close_attempts[n].success

\* the step is a monitor cycle that evaluated position number k: the close
\* of a hard stop was attempted, the price of a stop_loss or take_profit
\* target was asked for; a position whose target an earlier close of the
\* cycle removed has nothing to evaluate
EvaluatedAt(k) ==
    LET pos == positions[k]
        i == find_monitor(pending_monitors, pos.symbol)
        target == pending_monitors[i]
        removed == \E n \in DOMAIN close_attempts' :
                      /\ close_attempts'[n].index < k
                      /\ close_attempts'[n].key = target.key
                      /\ close_attempts'[n].success
    IN  /\ k \in DOMAIN tickers'
        /\ (i # 0 /\ ~removed) =>
              IF pos.unrealizedPnl <= HardStopLoss
              THEN \E n \in DOMAIN close_attempts' :
                      close_attempts'[n].index = k
              ELSE IF target.stop_loss # NoArg
              THEN tickers'[k].sl_price # NotFetched
              ELSE target.take_profit # NoArg =>
                      tickers'[k].tp_price # NotFetched

\* a monitor thread leaves its loop only when monitoring_active is false
LoopExitsOnlyWhenStopped ==
    \A i \in DOMAIN monitor_threads :
        (monitor_threads[i] # "exited" /\ monitor_threads'[i] = "exited")
            => ~monitoring_active

\* C28: a price-fetch error or a failed close for one position neither
\* stops the evaluation of the remaining positions of the cycle nor ends the
\* loop: every position fetched for the cycle is evaluated in it, a thread
\* exits only when monitoring_active is false, and a thread that sleeps
\* after a cycle with such an error reaches the body of its next cycle
\* unless monitoring_active has become false.
C28_ErrorsContained ==
    /\ [][/\ LoopExitsOnlyWhenStopped
          /\ result'.op = "monitor_cycle" =>
                /\ Len(tickers') = Len(positions)
                /\ \A k \in DOMAIN positions : EvaluatedAt(k)]_vars
    /\ \A i \in 1..MaxThreads :
          (/\ i \in DOMAIN monitor_threads
           /\ monitor_threads[i] = "sleep"
           /\ \E k \in DOMAIN tickers : CycleErrorAt(k))
             ~> (\/ ~monitoring_active
                 \/ i \in DOMAIN monitor_threads
                    /\ monitor_threads[i] = "cycle")

\* a cycle over two positions: the close of the first one failed, the price
\* of the second one could not be fetched, and both were evaluated
C28_Witness ==
    /\ result.op = "monitor_cycle"
    /\ Len(positions) = 2
    /\ Len(tickers) = 2
    /\ \E n \in DOMAIN close_attempts :
          close_attempts[n].index = 1 /\ ~close_attempts[n].success
    /\ tickers[2].tp_price = NoPrice
    /\ monitoring_active

\* the close attempts of the cycle just run for position number k
AttemptsAt(k) == {n \in DOMAIN close_attempts' : close_attempts'[n].index = k}

\* target number i was removed by a successful close before position k
RemovedBefore(i, k) ==
    \E n \in DOMAIN close_attempts' :
        /\ close_attempts'[n].index < k
        /\ close_attempts'[n].key = pending_monitors[i].key
        /\ close_attempts'[n].success

\* target number i is the first target still in the dict whose key equals,
\* contains or is contained in the symbol of position number k
FirstMatchAt(i, k) ==
    /\ symbol_matches(pending_monitors[i].key, positions[k].symbol)
    /\ ~RemovedBefore(i, k)
    /\ \A j \in DOMAIN pending_monitors :
          (j < i /\ symbol_matches(pending_monitors[j].key,
                                   positions[k].symbol))
              => RemovedBefore(j, k)

\* C31: within one monitor cycle each position is matched to at most one
\* target, the first in insertion order whose key equals, contains or is
\* contained in the position symbol, and at most one close order is
\* submitted for it, also when both its stop-loss and take-profit
\* conditions hold.
C31_OneTargetOneClose ==
    [][result'.op = "monitor_cycle" =>
          /\ \A k \in DOMAIN positions :
                /\ Cardinality(AttemptsAt(k)) <= 1
                /\ \A n \in AttemptsAt(k) :
                      \E i \in DOMAIN pending_monitors :
                          /\ FirstMatchAt(i, k)
                          /\ close_attempts'[n].key = pending_monitors[i].key
          /\ Cardinality({c \in DOMAIN gateway_calls' :
                            gateway_calls'[c].fn = "create_order"})
                <= Cardinality({k \in DOMAIN positions :
                                  AttemptsAt(k) # {}})]_vars

\* a cycle met a long BTCUSDT position at price 100 while two targets
\* matched it and the first one had stop_loss and take_profit 100: one
\* close, for the stop loss, under the key of the first target
C31_Witness ==
    /\ result.op = "monitor_cycle"
    /\ Len(positions) >= 1
    /\ positions[1].symbol = "BTCUSDT"
    /\ positions[1].side = "long"
    /\ tickers[1].sl_price = 100
    /\ \E n \in DOMAIN close_attempts :
          /\ close_attempts[n].index = 1
          /\ close_attempts[n].key = "BTC"
          /\ close_attempts[n].reason = "stop_loss"
          /\ close_attempts[n].success
    /\ Len(pending_monitors) = 1
    /\ pending_monitors[1].key = "BTCUSDT"

\* C32: while the monitor is running and the trigger condition of a matched
\* position keeps holding, if the gateway accepts a close order again and
\* again whenever one is attempted, then the position is eventually closed
\* and its target removed, however many close attempts failed before; the
\* monitor threads are scheduled with weak fairness.
C32_RetryUntilClosed ==
    SF_vars(AcceptedCycle) =>
        ((monitoring_active /\ pending_monitors # <<>>)
            ~> (\/ ~monitoring_active
                \/ /\ pending_monitors = <<>>
                   /\ \E n \in DOMAIN close_attempts :
                         close_attempts[n].success))

\* a close attempt for the losing position failed: the target stays in
\* pending_monitors and the running loop goes to sleep before its next cycle
C32_Witness ==
    /\ result.op = "monitor_cycle"
    /\ monitoring_active
    /\ pending_monitors # <<>>
    /\ \E n \in DOMAIN close_attempts :
          /\ close_attempts[n].symbol = "BTCUSDT"
          /\ close_attempts[n].reason = "pnl"
          /\ ~close_attempts[n].success
    /\ \E i \in DOMAIN monitor_threads : monitor_threads[i] = "sleep"

\* C33: a call of stop_monitoring that waits in its join eventually
\* returns, in every interleaving with concurrent handlers, provided the
\* handlers and the monitor threads are scheduled and the gateway calls of
\* the cycle in flight return.
C33_StopTerminates ==
    \A w \in 1..MaxWorkers :
        (w \in DOMAIN workers /\ workers[w].pc = "join")
            ~> (w \in DOMAIN workers /\ workers[w].pc = "done")

\* C34: with start_monitoring and stop_monitoring called from concurrent
\* handlers, at most one monitor loop is alive in every interleaving.
C34_OneLoopConcurrent == LiveLoops(monitor_threads) <= 1

\* C35: with the RiskLimits fixed, after any sequence of place_trade and
\* check_limit_order_status calls daily_trade_count never exceeds
\* max_trades_per_day.
C35_QuotaKept == daily_trade_count <= max_trades_per_day

\* C36: in every sequential run of place_trade, check_limit_order_status,
\* can_trade and get_trading_status, also across days, daily_trade_count
\* equals the number of filled records dated today whenever
\* get_trading_status is called: its reconciliation leaves the counter as
\* the day-rollover test of the call found it.
C36_ReconcileKeepsCount ==
    [][result'.op = "get_trading_status"
         => /\ RolledCount = FilledToday(trades_history')
            /\ daily_trade_count' = RolledCount
      ]_vars

\* C37: under concurrent market place_trade calls the risk gate is not
\* bypassed: while the cooldown that starts with the first of them runs (the
\* clock stands still and cooldown_minutes is positive), at most one of
\* them submits an order to the gateway.
C37_GateNotBypassed ==
    (cooldown_minutes > 0 /\ now = 0) => Cardinality(Fills) <= 1

\* the callers of close_position that have submitted a close order
Submitted == {w \in DOMAIN workers : workers[w].pc \in {"closed", "refused"}}

\* C38: at most one close order is submitted for one open position: in
\* every interleaving of a close by the monitor loop with close_position
\* commands on the same symbol, the later closers submit nothing.
C38_OneCloseOrder ==
    (\E w \in Submitted : workers[w].reg = FromMonitor)
        => Cardinality(Submitted) <= 1

\* C39: every MonitorTarget belongs to an open position: after a successful
\* close_position command for a symbol no target matching that symbol
\* remains in pending_monitors.
C39_NoOrphanTarget ==
    [][(result'.op = "close_position" /\ result'.ok)
         => \A i \in DOMAIN pending_monitors' :
               ~symbol_matches(pending_monitors'[i].key, result'.arg)
      ]_vars

\* C40: the result of get_trading_status is self-consistent: its can_trade
\* flag is what the risk gate yields for the daily_trade_count, daily_pnl
\* and last_trade_time the same result reports, also when the call
\* reconciled the count from the history.
C40_ReportConsistent ==
    [][result'.op = "get_trading_status"
         => result'.ok = (can_trade(daily_trade_count', daily_pnl',
                                    last_trade_time', now') = "allowed")
      ]_vars

====
